---- MODULE Spec2Model ----
(***************************************************************************)
(* A model of quicktype.  The IR graph layer (module IRGraph): the Named   *)
(* merge rule, the packed union representation and its traversals, the     *)
(* class arena with redirects, and the two name-regathering passes.  The   *)
(* rendering layer: ConvenienceRenderer's naming tables and iteration, the *)
(* TypeScript renderer's type expressions and the validators it emits.     *)
(* The command line's parseJsonFromStream.  The IR functions are pure;     *)
(* each specification below draws the inputs of one group of operations    *)
(* from a bounded set in its Init and applies the operations in its        *)
(* actions.                                                                *)
(***************************************************************************)
EXTENDS Integers, Sequences, FiniteSets, TLC

VARIABLES
    named,      \* the inputs of unifyNamed: [f, a, b]
    unified,    \* the result of unifyNamed, or NoResult
    union,      \* the IRUnionRep under inspection
    uop,        \* the union operation applied last ("none" before any)
    uarg,       \* the IRType argument of isUnionMember
    uout,       \* the result of the union operation applied last
    graph,      \* the IRGraph: [classes, toplevels]
    fi,         \* the followIndex call in progress: [pc, start, index, steps, result]
    graph0,     \* the graph as it was before any canonicalization pass
    passes,     \* the names of the last two canonicalization passes applied
    before,     \* the graph the last pass was applied to
    twice,      \* progress through regatherClassNames, regatherUnionNames run
                \* twice in a row: [matched, result]
    renderer,   \* the TypeScript renderer: its naming tables and what it emitted
    parser,     \* parseJsonFromStream: the stream still to read, the queue of
                \* number chunks and the events handed to the assembler
    cast,       \* a call of the emitted cast(obj, typ): [typ, obj, result]
    cli         \* a run of the command line: the options it was given and
                \* what it inferred, called, wrote and reported

vars == <<named, unified, union, uop, uarg, uout, graph, fi, graph0, passes,
          before, twice, renderer, parser, cast, cli>>

(***************************************************************************)
(* Bounds of the model.                                                    *)
(***************************************************************************)
\* The primitives bit set is enumerated over 0 .. 2^PrimBits - 1.
PrimBits == 6
\* The class arena holds at most MaxClasses entries.
MaxClasses == 3
\* The graphs the canonicalization passes run on have at most MaxGraphClasses
\* arena entries.
MaxGraphClasses == 2

NoResult == [tag |-> "NoResult"]

(***************************************************************************)
(* Data.Maybe                                                              *)
(***************************************************************************)
Nothing == [tag |-> "Nothing"]
Just(x) == [tag |-> "Just", val |-> x]
isJust(m) == m.tag = "Just"

(***************************************************************************)
(* Data.Int.Bits on non-negative integers.                                 *)
(***************************************************************************)
RECURSIVE BitsAnd(_, _)
BitsAnd(a, b) ==
    IF a = 0 \/ b = 0 THEN 0
    ELSE (a % 2) * (b % 2) + 2 * BitsAnd(a \div 2, b \div 2)

RECURSIVE BitsXor(_, _)
BitsXor(a, b) ==
    IF a = 0 THEN b
    ELSE IF b = 0 THEN a
    ELSE (((a % 2) + (b % 2)) % 2) + 2 * BitsXor(a \div 2, b \div 2)

RECURSIVE Pow2(_)
Pow2(n) == IF n = 0 THEN 1 ELSE 2 * Pow2(n - 1)

(***************************************************************************)
(* Strings are sequences of one-character strings.  CodeUnits lists the    *)
(* characters of the model in ascending order of their UTF-16 code units,  *)
(* the order both PureScript's Ord String and JavaScript's < compare by.   *)
(***************************************************************************)
CodeUnits ==
    <<" ", "\"", ".", "/", "1", "2", "3", "A", "B", "G", "S", "T", "U", "V",
      "W", "\\", "_", "a", "b", "o", "p", "q", "s">>

CharCode(c) == CHOOSE i \in 1 .. Len(CodeUnits) : CodeUnits[i] = c

RECURSIVE StrLess(_, _)
StrLess(a, b) ==
    IF a = <<>> THEN b /= <<>>
    ELSE IF b = <<>> THEN FALSE
    ELSE IF Head(a) = Head(b) THEN StrLess(Tail(a), Tail(b))
    ELSE CharCode(Head(a)) < CharCode(Head(b))

(***************************************************************************)
(* data Named a = Given a | Inferred a                                     *)
(***************************************************************************)
Given(x) == [tag |-> "Given", val |-> x]
Inferred(x) == [tag |-> "Inferred", val |-> x]

\* The first argument of unifyNamed: the merge functions the model passes.
MergeFns == {"union", "intersection"}
ApplyMerge(f, x, y) == IF f = "union" THEN x \cup y ELSE x \cap y

\* updateGiven (src/unnamed/part_000, lines 393-395)
updateGiven(f(_), n) ==
    IF n.tag = "Given" THEN Given(f(Just(n.val))) ELSE Given(f(Nothing))

\* updateInferred (src/unnamed/part_000, lines 397-399)
updateInferred(f(_), n) ==
    IF n.tag = "Inferred" THEN Inferred(f(n.val)) ELSE n

namedValue(n) == n.val

\* mapToInferred (src/unnamed/part_000, lines 405-406)
mapToInferred(f(_), n) == Inferred(f(namedValue(n)))

\* A slip in the second and third equations: a lone Given is merged instead
\* of taken as it is.
unifyNamedMerging(f, a, b) ==
    IF a.tag = "Given" /\ b.tag = "Given" THEN Given(ApplyMerge(f, a.val, b.val))
    ELSE IF a.tag = "Given" THEN Given(ApplyMerge(f, a.val, b.val))
    ELSE IF b.tag = "Given" THEN Given(ApplyMerge(f, a.val, b.val))
    ELSE Inferred(ApplyMerge(f, a.val, b.val))

unifyNamed(f, a, b) ==
    IF a.tag = "Given" /\ b.tag = "Given" THEN Given(ApplyMerge(f, a.val, b.val))
    ELSE IF a.tag = "Given" THEN a
    ELSE IF b.tag = "Given" THEN b
    ELSE Inferred(ApplyMerge(f, a.val, b.val))

(***************************************************************************)
(* IRType, IREnumData, IRUnionRep                                          *)
(***************************************************************************)
IRNoInformation == [tag |-> "IRNoInformation"]
IRAnyType == [tag |-> "IRAnyType"]
IRNull == [tag |-> "IRNull"]
IRInteger == [tag |-> "IRInteger"]
IRDouble == [tag |-> "IRDouble"]
IRBool == [tag |-> "IRBool"]
IRString == [tag |-> "IRString"]
IRArray(t) == [tag |-> "IRArray", of |-> t]
IRClass(i) == [tag |-> "IRClass", of |-> i]
IRMap(t) == [tag |-> "IRMap", of |-> t]
IREnum(ed) == [tag |-> "IREnum", of |-> ed]
IRUnion(r) == [tag |-> "IRUnion", of |-> r]

IREnumData(ns, vs) == [names |-> ns, values |-> vs]

IRUnionRep(ns, p, a, c, m, e) ==
    [names |-> ns, primitives |-> p, arrayType |-> a, classRef |-> c,
     mapType |-> m, enumData |-> e]

irUnion_Null == 2
irUnion_Integer == 4
irUnion_Double == irUnion_Integer + 8
irUnion_Number == irUnion_Double
irUnion_Bool == 16
irUnion_String == 32

emptyUnion == IRUnionRep(Inferred({}), 0, Nothing, Nothing, Nothing, Nothing)

(***************************************************************************)
(* removeNullFromUnion                                                     *)
(***************************************************************************)
\* A slip in the else branch: the Null bit is the only one kept.
removeNullFromUnionMasking(un) ==
    IF BitsAnd(irUnion_Null, un.primitives) = 0
    THEN [hasNull |-> FALSE, nonNullUnion |-> un]
    ELSE [hasNull |-> TRUE,
          nonNullUnion |->
              [un EXCEPT !.primitives = BitsAnd(irUnion_Null, un.primitives)]]

removeNullFromUnion(un) ==
    IF BitsAnd(irUnion_Null, un.primitives) = 0
    THEN [hasNull |-> FALSE, nonNullUnion |-> un]
    ELSE [hasNull |-> TRUE,
          nonNullUnion |->
              [un EXCEPT !.primitives = BitsXor(irUnion_Null, un.primitives)]]

unionHasArray(un) ==
    IF isJust(un.arrayType) THEN Just(IRArray(un.arrayType.val)) ELSE Nothing
unionHasClass(un) ==
    IF isJust(un.classRef) THEN Just(IRClass(un.classRef.val)) ELSE Nothing
unionHasMap(un) ==
    IF isJust(un.mapType) THEN Just(IRMap(un.mapType.val)) ELSE Nothing

isInPrimitives(primitives, bit) == BitsAnd(bit, primitives) /= 0

\* A slip: the number test done as a plain bit test.
isInNumberAnyBit(primitives, bits) == BitsAnd(bits, primitives) /= 0

isInNumber(primitives, bits) == BitsAnd(irUnion_Number, primitives) = bits

(***************************************************************************)
(* forUnion_ : the sequence of types it passes to f, in call order.        *)
(***************************************************************************)
forUnion_(un) ==
    LET inPrimitives(bit) == isInPrimitives(un.primitives, bit)
        inNumber(bits) == isInNumber(un.primitives, bits)
        when(c, t) == IF c THEN <<t>> ELSE <<>>
    IN  when(inPrimitives(irUnion_Null), IRNull)
        \o when(inNumber(irUnion_Integer), IRInteger)
        \o when(inNumber(irUnion_Double), IRDouble)
        \o when(inPrimitives(irUnion_Bool), IRBool)
        \o when(inPrimitives(irUnion_String), IRString)
        \o (IF isJust(un.arrayType) THEN <<IRArray(un.arrayType.val)>> ELSE <<>>)
        \o (IF isJust(un.classRef) THEN <<IRClass(un.classRef.val)>> ELSE <<>>)
        \o (IF isJust(un.mapType) THEN <<IRMap(un.mapType.val)>> ELSE <<>>)

(***************************************************************************)
(* mapUnionM in the Identity monad (mapUnion): the list is built back to   *)
(* front, each step consing its result onto the list so far.               *)
(***************************************************************************)
\* mapUnionM / mapUnion (src/unnamed/part_000, lines 662-689)
mapUnion(f(_), un) ==
    LET mapGeneral(m, convert(_), l) ==
            IF isJust(m) THEN <<f(convert(m.val))>> \o l ELSE l
        mapPrimitive(predicate(_, _), bit, t, l) ==
            IF predicate(un.primitives, bit) THEN <<f(t)>> \o l ELSE l
        l1 == mapGeneral(un.mapType, IRMap, <<>>)
        l2 == mapGeneral(un.classRef, IRClass, l1)
        l3 == mapGeneral(un.arrayType, IRArray, l2)
        l4 == mapPrimitive(isInPrimitives, irUnion_String, IRString, l3)
        l5 == mapPrimitive(isInPrimitives, irUnion_Bool, IRBool, l4)
        l6 == mapPrimitive(isInNumber, irUnion_Double, IRDouble, l5)
        l7 == mapPrimitive(isInNumber, irUnion_Integer, IRInteger, l6)
    IN  mapPrimitive(isInPrimitives, irUnion_Null, IRNull, l7)

unionToList(un) == mapUnion(LAMBDA t : t, un)

nullableFromUnion(un) ==
    LET r == removeNullFromUnion(un)
        l == unionToList(r.nonNullUnion)
    IN  IF r.hasNull
        THEN IF Len(l) = 1 THEN Just(l[1]) ELSE Nothing
        ELSE Nothing

isUnionMember(t, un) ==
    LET inPrimitives(bit) == isInPrimitives(un.primitives, bit)
        inNumber(bits) == isInNumber(un.primitives, bits)
        maybeEq(x, m) == IF isJust(m) THEN x = m.val ELSE FALSE
    IN  CASE t.tag = "IRNull" -> inPrimitives(irUnion_Null)
          [] t.tag = "IRInteger" -> inNumber(irUnion_Integer)
          [] t.tag = "IRDouble" -> inNumber(irUnion_Double)
          [] t.tag = "IRBool" -> inPrimitives(irUnion_Bool)
          [] t.tag = "IRString" -> inPrimitives(irUnion_String)
          [] t.tag = "IRArray" -> maybeEq(t.of, un.arrayType)
          [] t.tag = "IRClass" -> maybeEq(t.of, un.classRef)
          [] t.tag = "IRMap" -> maybeEq(t.of, un.mapType)
          [] t.tag = "IREnum" -> maybeEq(t.of, un.enumData)
          [] t.tag = "IRUnion" -> FALSE
          [] t.tag = "IRAnyType" -> FALSE
          [] t.tag = "IRNoInformation" -> FALSE

(***************************************************************************)
(* data Entry = NoType | Class IRClassData | Redirect Int, IRClassData,    *)
(* IRGraph.  Seq.index is 0-based; a TLA+ sequence is 1-based.             *)
(***************************************************************************)
NoType == [tag |-> "NoType"]
Class(cd) == [tag |-> "Class", cd |-> cd]
Redirect(i) == [tag |-> "Redirect", to |-> i]

IRClassData(ns, ps) == [names |-> ns, properties |-> ps]
IRGraph(cs, tl) == [classes |-> cs, toplevels |-> tl]

\* Data.Map: a function over the finite set of its keys.
EmptyMap == [k \in {} |-> {}]

emptyGraph == IRGraph(<<>>, EmptyMap)

SeqIndex(i, s) == IF i >= 0 /\ i < Len(s) THEN Just(s[i + 1]) ELSE Nothing

(***************************************************************************)
(* followIndex, one call at a time: a call inspects the entry at its index *)
(* and either returns (Class) or calls itself on the target (Redirect).    *)
(* fromJust of Nothing and the missing NoType case fail at run time.       *)
(***************************************************************************)
\* A slip in the Class case: the index the walk started from is returned.
followIndexCallKeepingStart(g, c) ==
    LET e == SeqIndex(c.index, g.classes)
    IN  IF ~isJust(e) \/ e.val.tag = "NoType"
        THEN [c EXCEPT !.pc = "failed", !.steps = @ + 1]
        ELSE IF e.val.tag = "Class"
        THEN [c EXCEPT !.pc = "done", !.steps = @ + 1,
                       !.result = <<c.start, e.val.cd>>]
        ELSE [c EXCEPT !.index = e.val.to, !.steps = @ + 1]

followIndexCall(g, c) ==
    LET e == SeqIndex(c.index, g.classes)
    IN  IF ~isJust(e) \/ e.val.tag = "NoType"
        THEN [c EXCEPT !.pc = "failed", !.steps = @ + 1]
        ELSE IF e.val.tag = "Class"
        THEN [c EXCEPT !.pc = "done", !.steps = @ + 1,
                       !.result = <<c.index, e.val.cd>>]
        ELSE [c EXCEPT !.index = e.val.to, !.steps = @ + 1]

\* followIndex as a function, for the arenas on which it is defined.
RECURSIVE followIndex(_, _)
followIndex(g, index) ==
    LET e == SeqIndex(index, g.classes).val
    IN  IF e.tag = "Class" THEN <<index, e.cd>> ELSE followIndex(g, e.to)

getClassFromGraph(g, index) == followIndex(g, index)[2]

\* mapClasses (src/unnamed/part_000, lines 503-508)
mapClasses(f(_, _), g) ==
    LET cs == g.classes
        live == SelectSeq([i \in 1 .. Len(cs) |-> i],
                          LAMBDA i : cs[i].tag = "Class")
    IN  [k \in 1 .. Len(live) |-> f(live[k] - 1, cs[live[k]].cd)]

\* mapClassesInSeq (src/unnamed/part_000, lines 510-515)
mapClassesInSeq(f(_, _), entries) ==
    [i \in 1 .. Len(entries) |->
        IF entries[i].tag = "Class" THEN Class(f(i - 1, entries[i].cd))
        ELSE entries[i]]

(***************************************************************************)
(* Data.String.Util.singular, on a string held as a sequence of characters *)
(***************************************************************************)
EndsWith(s, suffix) ==
    /\ Len(s) >= Len(suffix)
    /\ SubSeq(s, Len(s) - Len(suffix) + 1, Len(s)) = suffix

singular(s) ==
    IF EndsWith(s, <<"i", "e", "s">>) THEN SubSeq(s, 1, Len(s) - 3) \o <<"y">>
    ELSE IF EndsWith(s, <<"e", "s">>) THEN SubSeq(s, 1, Len(s) - 2)
    ELSE IF EndsWith(s, <<"s">>) THEN SubSeq(s, 1, Len(s) - 1)
    ELSE s

(***************************************************************************)
(* regatherClassNames                                                      *)
(***************************************************************************)
\* L.foldr (M.unionWith S.union) M.empty over a list of maps.
RECURSIVE combine(_)
combine(l) ==
    IF l = <<>> THEN EmptyMap
    ELSE LET a == Head(l)
             b == combine(Tail(l))
         IN  [k \in DOMAIN a \cup DOMAIN b |->
                 IF k \in DOMAIN a /\ k \in DOMAIN b THEN a[k] \cup b[k]
                 ELSE IF k \in DOMAIN a THEN a[k] ELSE b[k]]

RECURSIVE gatherFromType(_, _)
gatherFromType(name, t) ==
    CASE t.tag = "IRClass" -> (t.of :> {name})
      [] t.tag = "IRArray" -> gatherFromType(singular(name), t.of)
      [] t.tag = "IRMap" -> gatherFromType(singular(name), t.of)
      [] t.tag = "IRUnion" ->
            LET un == t.of
                fromArray == IF isJust(un.arrayType)
                             THEN gatherFromType(name, un.arrayType.val)
                             ELSE EmptyMap
                fromMap == IF isJust(un.mapType)
                           THEN gatherFromType(name, un.mapType.val)
                           ELSE EmptyMap
                fromClass == IF isJust(un.classRef)
                             THEN gatherFromType(name, IRClass(un.classRef.val))
                             ELSE EmptyMap
            IN  combine(<<fromArray, fromMap, fromClass>>)
      [] OTHER -> EmptyMap

\* M.insert of each entry of a sequence, in order, into a map.
RECURSIVE insertAll(_, _)
insertAll(m, entries) ==
    IF entries = <<>> THEN m
    ELSE insertAll((Head(entries)[1] :> Head(entries)[2]) @@ m, Tail(entries))

\* M.toUnfoldable: the entries of a map as a list, in ascending key order.
RECURSIVE toUnfoldable(_)
toUnfoldable(m) ==
    IF DOMAIN m = {} THEN <<>>
    ELSE LET k == CHOOSE x \in DOMAIN m :
                      \A y \in DOMAIN m \ {x} : StrLess(x, y)
         IN  <<<<k, m[k]>>>> \o toUnfoldable([x \in DOMAIN m \ {k} |-> m[x]])

gatherFromClassData(i, cd) ==
    LET l == toUnfoldable(cd.properties)
    IN  combine([k \in 1 .. Len(l) |-> gatherFromType(l[k][1], l[k][2])])

\* A wrong set operation in classMapper: the gathered names the class does
\* not have yet, instead of the gathered names.
regatherClassNamesDifference(g) ==
    LET newNames == combine(mapClasses(gatherFromClassData, g))
        classMapper(i, cd) ==
            IRClassData(
                updateInferred(
                    LAMBDA old : IF i \in DOMAIN newNames
                                 THEN newNames[i] \ old ELSE old,
                    cd.names),
                cd.properties)
    IN  IRGraph(mapClassesInSeq(classMapper, g.classes), g.toplevels)

regatherClassNames(g) ==
    LET newNames == combine(mapClasses(gatherFromClassData, g))
        classMapper(i, cd) ==
            IRClassData(
                updateInferred(
                    LAMBDA old : IF i \in DOMAIN newNames
                                 THEN newNames[i] ELSE old,
                    cd.names),
                cd.properties)
    IN  IRGraph(mapClassesInSeq(classMapper, g.classes), g.toplevels)

(***************************************************************************)
(* regatherUnionNames                                                      *)
(***************************************************************************)
reassign(name, names) ==
    IF name.tag = "Given"
    THEN updateGiven(LAMBDA m : IF isJust(m) THEN m.val \cup {name.val}
                                ELSE {name.val},
                     names)
    ELSE updateInferred(LAMBDA old : {name.val}, names)

\* updateType passing the containing name, not its singular form, into the
\* array and map arms of a union.
RECURSIVE updateTypeKeepingName(_, _)
updateTypeKeepingName(name, t) ==
    CASE t.tag = "IRArray" -> IRArray(updateTypeKeepingName(name, t.of))
      [] t.tag = "IRMap" -> IRMap(updateTypeKeepingName(name, t.of))
      [] t.tag = "IRUnion" ->
            LET un == t.of
                newArrayType == IF isJust(un.arrayType)
                                THEN Just(updateTypeKeepingName(name, un.arrayType.val))
                                ELSE Nothing
                newMapType == IF isJust(un.mapType)
                              THEN Just(updateTypeKeepingName(name, un.mapType.val))
                              ELSE Nothing
            IN  IRUnion(IRUnionRep(reassign(name, un.names), un.primitives,
                                   newArrayType, un.classRef, newMapType,
                                   un.enumData))
      [] OTHER -> t

RECURSIVE updateType(_, _)
updateType(name, t) ==
    CASE t.tag = "IRArray" -> IRArray(updateType(name, t.of))
      [] t.tag = "IRMap" -> IRMap(updateType(name, t.of))
      [] t.tag = "IRUnion" ->
            LET un == t.of
                newNames == reassign(name, un.names)
                singularName == mapToInferred(singular, name)
                newArrayType == IF isJust(un.arrayType)
                                THEN Just(updateType(singularName, un.arrayType.val))
                                ELSE Nothing
                newMapType == IF isJust(un.mapType)
                              THEN Just(updateType(singularName, un.mapType.val))
                              ELSE Nothing
            IN  IRUnion(IRUnionRep(newNames, un.primitives, newArrayType,
                                   un.classRef, newMapType, un.enumData))
      [] OTHER -> t

\* regatherUnionNames rebuilding the arena with mapClasses, which keeps the
\* Class entries only.
regatherUnionNamesCompacting(g) ==
    LET classMapper(i, cd) ==
            Class(IRClassData(cd.names,
                              [k \in DOMAIN cd.properties |->
                                  updateType(Inferred(k), cd.properties[k])]))
    IN  IRGraph(mapClasses(classMapper, g),
                [k \in DOMAIN g.toplevels |->
                    updateType(Given(k), g.toplevels[k])])

regatherUnionNames(g) ==
    LET classMapper(i, cd) ==
            IRClassData(cd.names,
                        [k \in DOMAIN cd.properties |->
                            updateType(Inferred(k), cd.properties[k])])
        newClasses == mapClassesInSeq(classMapper, g.classes)
        newTopLevels == [k \in DOMAIN g.toplevels |->
                            updateType(Given(k), g.toplevels[k])]
    IN  IRGraph(newClasses, newTopLevels)

(***************************************************************************)
(* Input domains.                                                          *)
(***************************************************************************)
NameStrings == {"a", "b"}
NamedSets == {Given(s) : s \in SUBSET NameStrings}
                 \cup {Inferred(s) : s \in SUBSET NameStrings}

UnionNames == {Inferred({}), Given({"U"})}
EnumA == IREnumData(Inferred({"e"}), {"x", "y"})
EnumB == IREnumData(Inferred({"e"}), {"x"})

\* IRUnionRep is an exported constructor: every value of the bit set occurs.
UnionReps ==
    {IRUnionRep(ns, p, a, c, m, e) :
        ns \in UnionNames,
        p \in 0 .. (Pow2(PrimBits) - 1),
        a \in {Nothing, Just(IRString)},
        c \in {Nothing, Just(0)},
        m \in {Nothing, Just(IRInteger)},
        e \in {Nothing, Just(EnumA)}}

MemberArgs ==
    {IRNoInformation, IRAnyType, IRNull, IRInteger, IRDouble, IRBool, IRString,
     IRArray(IRString), IRArray(IRInteger), IRClass(0), IRClass(1),
     IRMap(IRInteger), IRMap(IRString), IREnum(EnumA), IREnum(EnumB),
     IRUnion(emptyUnion)}

\* Names are strings held as sequences of characters.
nA == <<"a">>
nG == <<"G">>
nO == <<"o">>
nP == <<"p">>
nQ == <<"q">>
nQs == <<"q", "s">>

\* The redirect chain from entry i ends at a Class entry within fuel entries.
RECURSIVE EndsAtClass(_, _, _)
EndsAtClass(cs, i, fuel) ==
    /\ fuel > 0
    /\ i >= 0 /\ i < Len(cs)
    /\ \/ cs[i + 1].tag = "Class"
       \/ /\ cs[i + 1].tag = "Redirect"
          /\ EndsAtClass(cs, cs[i + 1].to, fuel - 1)

\* Invariant 1 of the arena: redirect chains are acyclic and end at a Class.
WellFormedArena(cs) ==
    \A i \in 0 .. (Len(cs) - 1) :
        cs[i + 1].tag = "Redirect" => EndsAtClass(cs, i, Len(cs))

PlainClasses ==
    {IRClassData(Inferred({nO}), EmptyMap),
     IRClassData(Given({nG}), (nA :> IRInteger))}

ArenaEntries(n) ==
    {NoType} \cup {Redirect(j) : j \in 0 .. (n - 1)}
        \cup {Class(cd) : cd \in PlainClasses}

ArenasUpTo(max) ==
    UNION {{cs \in [1 .. n -> ArenaEntries(n)] : WellFormedArena(cs)} :
               n \in 1 .. max}

Arenas == ArenasUpTo(MaxClasses)

\* The indices of the Class entries, and the ClassIds a type may hold.
LiveIndices(cs) == {i \in 0 .. (Len(cs) - 1) : cs[i + 1].tag = "Class"}
HeldIndices(cs) == {i \in 0 .. (Len(cs) - 1) : cs[i + 1].tag /= "NoType"}

nT == <<"T">>
nU == <<"U">>

NullOr(ns, c) == IRUnionRep(ns, irUnion_Null, Nothing, Just(c), Nothing, Nothing)

\* The types through which a property reaches class t.
ClassShapes(t) ==
    {IRClass(t), IRArray(IRClass(t)), IRMap(IRClass(t)),
     IRArray(IRUnion(NullOr(Inferred({nO}), t))),
     IRUnion(IRUnionRep(Inferred({nO}), irUnion_String,
                        Just(IRUnion(NullOr(Given({nU}), t))),
                        Nothing, Nothing, Nothing))}
        \cup UNION {{IRUnion(NullOr(ns, t)),
                     IRUnion(IRUnionRep(ns, 0, Just(IRClass(t)), Nothing,
                                        Nothing, Nothing)),
                     IRUnion(IRUnionRep(ns, irUnion_Null, Nothing, Nothing,
                                        Just(IRClass(t)), Nothing))} :
                       ns \in {Inferred({nO}), Given({nU})}}

WithProperty(cs, owner, name, type) ==
    [cs EXCEPT ![owner + 1].cd.properties = (name :> type) @@ @]

nS == <<"S">>
nV == <<"V">>
nW == <<"W">>
nWs == <<"W", "s">>

\* Four top levels: a class, a union without and a union with Given names,
\* and a union whose array arm holds another union.
TopLevels(c) ==
    (nT :> IRClass(c))
        @@ (nS :> IRUnion(NullOr(Inferred({nO}), c)))
        @@ (nV :> IRUnion(NullOr(Given({nU}), c)))
        @@ (nWs :> IRUnion(IRUnionRep(Inferred({nO}), irUnion_Bool,
                                      Just(IRUnion(NullOr(Inferred({nO}), c))),
                                      Nothing, Nothing, Nothing)))

Lowest(is) == CHOOSE i \in is : \A j \in is : i <= j

\* Graphs after inference: the lowest live class has a property "qs" that
\* reaches some class, any live class may have a property "p" of a class
\* type, and the top levels reach the lowest live class.
CanonGraphs ==
    UNION {
        LET first == Lowest(LiveIndices(cs))
            withQs == UNION {{WithProperty(cs, first, nQs, ty) :
                                  ty \in ClassShapes(t)} : t \in HeldIndices(cs)}
            withP(xs) == {xs} \cup
                         {WithProperty(xs, o, nP, IRClass(t)) :
                              o \in LiveIndices(cs), t \in HeldIndices(cs)}
        IN  UNION {{IRGraph(ys, TopLevels(first)) : ys \in withP(xs)} :
                      xs \in withQs}
        : cs \in {a \in ArenasUpTo(MaxGraphClasses) : LiveIndices(a) /= {}}}

(***************************************************************************)
(* The types the renderers see (module Type): primitive, array, map,       *)
(* class, enum and union types.  A class's properties and the top levels   *)
(* are kept as the sequence of entries their collection iterates in.       *)
(***************************************************************************)
PrimitiveType(kind) == [kind |-> kind]
ArrayType(items) == [kind |-> "array", items |-> items]
MapType(values) == [kind |-> "map", values |-> values]
ClassType(names, properties) ==
    [kind |-> "class", names |-> names, properties |-> properties]
EnumType(names, cases) == [kind |-> "enum", names |-> names, cases |-> cases]
UnionType(names, members) ==
    [kind |-> "union", names |-> names, members |-> members]

isNamedType(t) == t.kind \in {"class", "enum", "union"}

\* Type.nullableFromUnion: the other member of a union of null and one more
\* type, and Nothing (null) for every other union.
nullableFromUnionType(u) ==
    IF /\ Len(u.members) = 2
       /\ \E i \in 1 .. 2 : u.members[i].kind = "null"
    THEN LET i == CHOOSE k \in 1 .. 2 : u.members[k].kind /= "null"
         IN  Just(u.members[i])
    ELSE Nothing

\* The entry of key k in a sequence of <<key, value>> entries.
Get(entries, k) ==
    LET i == CHOOSE j \in 1 .. Len(entries) : entries[j][1] = k
    IN  entries[i][2]

Has(entries, k) == \E j \in 1 .. Len(entries) : entries[j][1] = k

\* A sequence without the later occurrences of its elements (toOrderedSet).
RECURSIVE toOrderedSet(_)
toOrderedSet(xs) ==
    IF xs = <<>> THEN <<>>
    ELSE LET front == toOrderedSet(SubSeq(xs, 1, Len(xs) - 1))
             x == xs[Len(xs)]
         IN  IF \E i \in 1 .. Len(front) : front[i] = x
             THEN front ELSE Append(front, x)

\* allNamedTypes: the named types reachable from a type, parents first.
RECURSIVE allNamedTypesOfAll(_)
RECURSIVE allNamedTypesOf(_)
allNamedTypesOf(t) ==
    CASE t.kind = "array" -> allNamedTypesOf(t.items)
      [] t.kind = "map" -> allNamedTypesOf(t.values)
      [] t.kind = "class" ->
            <<t>> \o allNamedTypesOfAll(
                         [i \in 1 .. Len(t.properties) |-> t.properties[i][2]])
      [] t.kind = "union" -> <<t>> \o allNamedTypesOfAll(t.members)
      [] t.kind = "enum" -> <<t>>
      [] OTHER -> <<>>

allNamedTypesOfAll(ts) ==
    IF ts = <<>> THEN <<>>
    ELSE allNamedTypesOf(Head(ts)) \o allNamedTypesOfAll(Tail(ts))

allNamedTypes(topLevels) ==
    toOrderedSet(allNamedTypesOfAll(
                     [i \in 1 .. Len(topLevels) |-> topLevels[i][2]]))

(***************************************************************************)
(* Naming: names, namers and the assignment of final spellings.            *)
(***************************************************************************)
\* A Name is an object: id tells two names of the same spelling apart.
FixedName(id, name) == [kind |-> "FixedName", id |-> id, name |-> name]
SimpleName(id, name, namer) ==
    [kind |-> "SimpleName", id |-> id, name |-> name, namer |-> namer]

\* The upper-case form of a character.
ToUpper(c) == CASE c = "a" -> "A" [] c = "b" -> "B" [] c = "s" -> "S"
                [] OTHER -> c

IsLetter(c) == CharCode(c) >= CharCode("A") /\ c \notin {"\\", "_"}
IsDigit(c) == c \in {"1", "2", "3"}

isStartCharacter(c) == IsLetter(c) \/ c = "_"
isPartCharacter(c) == IsDigit(c) \/ isStartCharacter(c)

\* utf16LegalizeCharacters(isPartCharacter): the legal characters of a string.
RECURSIVE legalizeName(_)
legalizeName(s) ==
    IF s = <<>> THEN <<>>
    ELSE (IF isPartCharacter(Head(s)) THEN <<Head(s)>> ELSE <<>>)
             \o legalizeName(Tail(s))

\* typeNameStyle on names made of letters and digits: camelCase leaves such
\* a name as it is and startWithLetter makes its first letter upper case.
typeNameStyle(original) ==
    LET legal == legalizeName(original)
    IN  IF legal = <<>> THEN <<>>
        ELSE <<ToUpper(Head(legal))>> \o Tail(legal)

\* stringEscape: a double quote and a backslash get a backslash in front.
RECURSIVE stringEscape(_)
stringEscape(s) ==
    IF s = <<>> THEN <<>>
    ELSE (IF Head(s) \in {"\"", "\\"} THEN <<"\\", Head(s)>> ELSE <<Head(s)>>)
             \o stringEscape(Tail(s))

\* propertyNameStyle without the test of the first character (a variant
\* for comparison).
propertyNameStyleAnyStart(original) ==
    LET escaped == stringEscape(original)
        quoted == <<"\"">> \o escaped \o <<"\"">>
    IN  IF Len(original) = 0 THEN quoted
        ELSE IF escaped /= original THEN quoted
        ELSE IF legalizeName(original) /= original THEN quoted
        ELSE original

propertyNameStyle(original) ==
    LET escaped == stringEscape(original)
        quoted == <<"\"">> \o escaped \o <<"\"">>
    IN  IF Len(original) = 0 THEN quoted
        ELSE IF ~isStartCharacter(Head(original)) THEN quoted
        ELSE IF escaped /= original THEN quoted
        ELSE IF legalizeName(original) /= original THEN quoted
        ELSE original

\* The namers of the TypeScript renderer: a style and no prefixes.
namedTypeNamer == "namedTypeNamer"
propertyNamer == "propertyNamer"

nameStyle(namer, raw) ==
    IF namer = namedTypeNamer THEN typeNameStyle(raw)
    ELSE propertyNameStyle(raw)

\* The numeric suffixes namer.assign tries, in order.
Suffixes == <<<<"2">>, <<"3">>>>

\* namer.assign(raw, forbidden): style(raw) if it is free, else the first
\* free style(raw + suffix).
assign(namer, raw, forbidden) ==
    IF nameStyle(namer, raw) \notin forbidden THEN nameStyle(namer, raw)
    ELSE LET i == CHOOSE k \in 1 .. Len(Suffixes) :
                      /\ nameStyle(namer, raw \o Suffixes[k]) \notin forbidden
                      /\ \A j \in 1 .. (k - 1) :
                             nameStyle(namer, raw \o Suffixes[j]) \in forbidden
         IN  nameStyle(namer, raw \o Suffixes[i])

\* The spellings a map of assigned names holds for the members of a namespace.
Spellings(names, members) ==
    {names[n] : n \in {members[i] : i \in 1 .. Len(members)} \cap DOMAIN names}

\* Name assignment within one namespace: a FixedName gets its literal
\* spelling, a SimpleName the spelling its namer assigns given the spellings
\* already taken in the namespace.
RECURSIVE assignNamespace(_, _, _)
assignNamespace(names, members, i) ==
    IF i > Len(members) THEN names
    ELSE LET n == members[i]
             spelling == IF n.kind = "FixedName" THEN n.name
                         ELSE assign(n.namer, n.name, Spellings(names, members))
         IN  assignNamespace((n :> spelling) @@ names, members, i + 1)

\* The fixed names of a namespace are assigned before its other names.
FixedFirst(members) ==
    SelectSeq(members, LAMBDA n : n.kind = "FixedName")
        \o SelectSeq(members, LAMBDA n : n.kind /= "FixedName")

RECURSIVE assignNamespaces(_, _)
assignNamespaces(names, namespaces) ==
    IF namespaces = <<>> THEN names
    ELSE assignNamespaces(
             assignNamespace(names, FixedFirst(Head(namespaces)), 1),
             Tail(namespaces))

(***************************************************************************)
(* ConvenienceRenderer.  The renderer is a record: its top levels and      *)
(* options, the global namespace (its names in the order they were added), *)
(* the naming tables, the assigned spellings (names) and the annotations.  *)
(***************************************************************************)
NoCall == [op |-> "none"]
Return(v) == [tag |-> "Return", val |-> v]
Throw(v) == [tag |-> "Throw", val |-> v]

NewRenderer(topLevels, inlineUnions) ==
    [phase |-> "constructed",
     topLevels |-> topLevels,
     inlineUnions |-> inlineUnions,
     globalNamespace |-> <<>>,
     created |-> 0,
     _topLevelNames |-> <<>>,
     _namesForNamedTypes |-> <<>>,
     _propertyNames |-> <<>>,
     names |-> <<>>,
     annotations |-> <<>>,
     call |-> NoCall]

unionNeedsName(u) == ~isJust(nullableFromUnionType(u))

\* Map.set on a sequence of entries: the value of an existing key is replaced
\* in place, a new key is added at the end.
Set(entries, k, v) ==
    IF Has(entries, k)
    THEN [i \in 1 .. Len(entries) |->
              IF entries[i][1] = k THEN <<k, v>> ELSE entries[i]]
    ELSE Append(entries, <<k, v>>)

nameForTopLevel(r, type, name) ==
    LET styledName == typeNameStyle(name)
        newName == FixedName(r.created + 1, styledName)
    IN  [r EXCEPT !.created = @ + 1,
                  !.globalNamespace = Append(@, newName),
                  !._topLevelNames = Append(@, <<name, newName>>),
                  !._namesForNamedTypes =
                      IF isNamedType(type) THEN Set(@, type, newName) ELSE @]

addNamedForNamedType(r, type) ==
    IF Has(r._namesForNamedTypes, type) THEN r
    ELSE LET newName == SimpleName(r.created + 1, type.names, namedTypeNamer)
         IN  [r EXCEPT !.created = @ + 1,
                       !.globalNamespace = Append(@, newName),
                       !._namesForNamedTypes = Set(@, type, newName)]

addPropertyNameds(r, c) ==
    LET names == [i \in 1 .. Len(c.properties) |->
                     <<c.properties[i][1],
                       SimpleName(r.created + i, c.properties[i][1],
                                  propertyNamer)>>]
    IN  [r EXCEPT !.created = @ + Len(c.properties),
                  !._propertyNames = Set(@, c, names)]

RECURSIVE nameTopLevels(_, _)
nameTopLevels(r, i) ==
    IF i > Len(r.topLevels) THEN r
    ELSE nameTopLevels(
             nameForTopLevel(r, r.topLevels[i][2], r.topLevels[i][1]), i + 1)

RECURSIVE nameClasses(_, _)
nameClasses(r, classes) ==
    IF classes = <<>> THEN r
    ELSE nameClasses(
             addPropertyNameds(addNamedForNamedType(r, Head(classes)),
                               Head(classes)),
             Tail(classes))

RECURSIVE nameNamedTypes(_, _)
nameNamedTypes(r, types) ==
    IF types = <<>> THEN r
    ELSE nameNamedTypes(addNamedForNamedType(r, Head(types)), Tail(types))

\* setUpNaming without names for the unions (a variant for comparison).
setUpNamingWithoutUnions(r) ==
    LET types == allNamedTypes(r.topLevels)
        classes == SelectSeq(types, LAMBDA t : t.kind = "class")
        enums == SelectSeq(types, LAMBDA t : t.kind = "enum")
        fresh == [r EXCEPT !.globalNamespace = <<>>,
                           !._namesForNamedTypes = <<>>,
                           !._propertyNames = <<>>]
    IN  nameNamedTypes(nameClasses(nameTopLevels(fresh, 1), classes), enums)

setUpNaming(r) ==
    LET types == allNamedTypes(r.topLevels)
        classes == SelectSeq(types, LAMBDA t : t.kind = "class")
        enums == SelectSeq(types, LAMBDA t : t.kind = "enum")
        namedUnions == SelectSeq(types, LAMBDA t :
                                     t.kind = "union" /\ unionNeedsName(t))
        fresh == [r EXCEPT !.globalNamespace = <<>>,
                           !._namesForNamedTypes = <<>>,
                           !._propertyNames = <<>>]
    IN  nameNamedTypes(
            nameNamedTypes(nameClasses(nameTopLevels(fresh, 1), classes),
                           namedUnions),
            enums)

\* The namespaces of a renderer after setUpNaming: the global namespace and
\* one namespace for the properties of each class.
Namespaces(r) ==
    <<r.globalNamespace>>
        \o [i \in 1 .. Len(r._propertyNames) |->
               [j \in 1 .. Len(r._propertyNames[i][2]) |->
                   r._propertyNames[i][2][j][2]]]

\* Renderer.render assigns the names of the namespaces setUpNaming returned.
assignNames(r) == [r EXCEPT !.names = assignNamespaces(<<>>, Namespaces(r))]

\* nameForNamedType registering a name for a type that has none.
nameForNamedTypeCreating(r, t) ==
    LET added == addNamedForNamedType(r, t)
    IN  [r |-> added, result |-> Return(Get(added._namesForNamedTypes, t))]

\* nameForNamedType: the renderer it leaves and what it returns or throws.
nameForNamedType(r, t) ==
    IF ~Has(r._namesForNamedTypes, t)
    THEN [r |-> r, result |-> Throw("Named type does not exist.")]
    ELSE [r |-> r, result |-> Return(Get(r._namesForNamedTypes, t))]

\* Collection.sortBy with the default comparator: a stable sort of entries
\* by the key the operator-valued record `key` gives each entry.
RECURSIVE sortByKey(_, _)
sortByKey(entries, key) ==
    IF entries = <<>> THEN <<>>
    ELSE LET front == sortByKey(SubSeq(entries, 1, Len(entries) - 1), key)
             x == entries[Len(entries)]
             keep == {i \in 1 .. Len(front) :
                          ~StrLess(key[x[1]], key[front[i][1]])}
             n == Cardinality(keep)
         IN  SubSeq(front, 1, n) \o <<x>> \o SubSeq(front, n + 1, Len(front))

\* The final spelling of each property of class c, by JSON name.
PropertyKeys(r, c) ==
    LET propertyNames == Get(r._propertyNames, c)
    IN  [k \in {propertyNames[i][1] : i \in 1 .. Len(propertyNames)} |->
            r.names[Get(propertyNames, k)]]

\* forEachProperty iterating in the order of the class's own property map.
forEachPropertyUnsorted(r, c) ==
    LET propertyNames == Get(r._propertyNames, c)
    IN  [i \in 1 .. Len(propertyNames) |->
            [name |-> propertyNames[i][2],
             jsonName |-> propertyNames[i][1],
             t |-> Get(c.properties, propertyNames[i][1])]]

\* forEachProperty: the calls of f, in order.
forEachProperty(r, c) ==
    LET propertyNames == Get(r._propertyNames, c)
        sortedPropertyNames == sortByKey(propertyNames, PropertyKeys(r, c))
    IN  [i \in 1 .. Len(sortedPropertyNames) |->
            [name |-> sortedPropertyNames[i][2],
             jsonName |-> sortedPropertyNames[i][1],
             t |-> Get(c.properties, sortedPropertyNames[i][1])]]

childrenOfType(r, t) ==
    IF t.kind = "class"
    THEN LET sorted == sortByKey(t.properties, PropertyKeys(r, t))
         IN  toOrderedSet([i \in 1 .. Len(sorted) |-> sorted[i][2]])
    ELSE CASE t.kind = "array" -> <<t.items>>
           [] t.kind = "map" -> <<t.values>>
           [] t.kind = "union" -> toOrderedSet(t.members)
           [] OTHER -> <<>>

(***************************************************************************)
(* TypeScriptRenderer.  A Sourcelike is kept as the flat sequence of its   *)
(* literal strings and names.                                              *)
(***************************************************************************)
Lit(str) == [tag |-> "lit", val |-> str]
NameRef(n) == [tag |-> "name", val |-> n]

caseNamer == Throw("FIXME: support enums")

RECURSIVE sourceFor(_, _)
RECURSIVE sourceForChildren(_, _)
sourceFor(r, t) ==
    CASE t.kind = "any" -> Return(<<Lit("any")>>)
      [] t.kind = "null" -> Return(<<Lit("null")>>)
      [] t.kind = "bool" -> Return(<<Lit("boolean")>>)
      [] t.kind = "integer" -> Return(<<Lit("number")>>)
      [] t.kind = "double" -> Return(<<Lit("number")>>)
      [] t.kind = "string" -> Return(<<Lit("string")>>)
      [] t.kind = "array" ->
            LET itemType == sourceFor(r, t.items)
            IN  IF itemType.tag = "Throw" THEN itemType
                ELSE IF r.inlineUnions /\ t.items.kind = "union"
                THEN LET nullable == nullableFromUnionType(t.items)
                     IN  IF isJust(nullable)
                         THEN LET inner == sourceFor(r, nullable.val)
                              IN  IF inner.tag = "Throw" THEN inner
                                  ELSE Return(inner.val \o <<Lit("[]")>>)
                         ELSE Return(<<Lit("Array<")>> \o itemType.val
                                         \o <<Lit(">")>>)
                ELSE IF t.items.kind = "array"
                THEN Return(<<Lit("Array<")>> \o itemType.val \o <<Lit(">")>>)
                ELSE Return(itemType.val \o <<Lit("[]")>>)
      [] t.kind = "class" ->
            LET found == nameForNamedType(r, t).result
            IN  IF found.tag = "Throw" THEN found
                ELSE Return(<<NameRef(found.val)>>)
      [] t.kind = "map" ->
            LET values == sourceFor(r, t.values)
            IN  IF values.tag = "Throw" THEN values
                ELSE Return(<<Lit("{ [key: string]: ")>> \o values.val
                                \o <<Lit(" }")>>)
      [] t.kind = "enum" -> Throw("FIXME: support enums")
      [] t.kind = "union" ->
            IF r.inlineUnions \/ isJust(nullableFromUnionType(t))
            THEN sourceForChildren(r, t.members)
            ELSE LET found == nameForNamedType(r, t).result
                 IN  IF found.tag = "Throw" THEN found
                     ELSE Return(<<NameRef(found.val)>>)

\* unionType.children.map(this.sourceFor), intercalated with " | ".
sourceForChildren(r, ts) ==
    IF ts = <<>> THEN Return(<<>>)
    ELSE LET first == sourceFor(r, Head(ts))
         IN  IF first.tag = "Throw" THEN first
             ELSE LET rest == sourceForChildren(r, Tail(ts))
                  IN  IF rest.tag = "Throw" THEN rest
                      ELSE IF Tail(ts) = <<>> THEN first
                      ELSE Return(first.val \o <<Lit(" | ")>> \o rest.val)

RECURSIVE typeMapTypeFor(_, _)
RECURSIVE typeMapTypeForChildren(_, _)
typeMapTypeFor(r, t) ==
    CASE t.kind = "any" -> Return(<<Lit("\"undefined\"")>>)
      [] t.kind = "null" -> Return(<<Lit("\"undefined\"")>>)
      [] t.kind = "bool" -> Return(<<Lit("\"boolean\"")>>)
      [] t.kind = "integer" -> Return(<<Lit("\"number\"")>>)
      [] t.kind = "double" -> Return(<<Lit("\"number\"")>>)
      [] t.kind = "string" -> Return(<<Lit("\"string\"")>>)
      [] t.kind = "array" ->
            LET items == typeMapTypeFor(r, t.items)
            IN  IF items.tag = "Throw" THEN items
                ELSE Return(<<Lit("array(")>> \o items.val \o <<Lit(")")>>)
      [] t.kind = "class" ->
            LET found == nameForNamedType(r, t).result
            IN  IF found.tag = "Throw" THEN found
                ELSE Return(<<Lit("object(\""), NameRef(found.val),
                              Lit("\")")>>)
      [] t.kind = "map" ->
            LET values == typeMapTypeFor(r, t.values)
            IN  IF values.tag = "Throw" THEN values
                ELSE Return(<<Lit("map(")>> \o values.val \o <<Lit(")")>>)
      [] t.kind = "enum" -> Throw("FIXME: support enums")
      [] t.kind = "union" ->
            LET children == typeMapTypeForChildren(r, t.members)
            IN  IF children.tag = "Throw" THEN children
                ELSE Return(<<Lit("union(")>> \o children.val \o <<Lit(")")>>)

typeMapTypeForChildren(r, ts) ==
    IF ts = <<>> THEN Return(<<>>)
    ELSE LET first == typeMapTypeFor(r, Head(ts))
         IN  IF first.tag = "Throw" THEN first
             ELSE LET rest == typeMapTypeForChildren(r, Tail(ts))
                  IN  IF rest.tag = "Throw" THEN rest
                      ELSE IF Tail(ts) = <<>> THEN first
                      ELSE Return(first.val \o <<Lit(", ")>> \o rest.val)

(***************************************************************************)
(* The top levels the renderer is run on.                                  *)
(***************************************************************************)
\* A class has at most MaxProperties properties.
MaxProperties == 2

tString == PrimitiveType("string")
tInteger == PrimitiveType("integer")
tNull == PrimitiveType("null")

sA == <<"a">>
sB == <<"b">>
sUpperA == <<"A">>
sUpperB == <<"B">>
sOne == <<"1">>

LeafClass == ClassType(sA, <<<<sA, tString>>>>)
PlainUnion == UnionType(sB, <<tString, tInteger>>)
NullableUnion == UnionType(sA, <<tNull, LeafClass>>)
CaseEnum == EnumType(sB, {"x", "y"})

JsonNames == {sA, sB, sUpperB, sOne}

\* The type of the property of each JSON name.
PropertyType(jsonName) ==
    CASE jsonName = sA -> LeafClass
      [] jsonName = sB -> ArrayType(PlainUnion)
      [] jsonName = sUpperB -> CaseEnum
      [] jsonName = sOne -> NullableUnion

\* Property maps: up to max distinct JSON names in any insertion order.
PropertyLists(max) ==
    UNION {{[i \in 1 .. n |-> <<f[i], PropertyType(f[i])>>] :
                f \in {g \in [1 .. n -> JsonNames] :
                           \A i, j \in 1 .. n : i /= j => g[i] /= g[j]}} :
               n \in 1 .. max}

RootClasses ==
    {ClassType(cn, pl) : cn \in {sA, sB}, pl \in PropertyLists(MaxProperties)}

TopLevelNames == {sA, sUpperA, sB}

\* One top level of a class, or that and a second top level.
RenderTopLevels ==
    {<<<<n, c>>>> : n \in TopLevelNames, c \in RootClasses}
        \cup UNION {{<<<<n, c>>, <<m, t>>>> :
                         c \in RootClasses, m \in TopLevelNames \ {n},
                         t \in {tString, LeafClass}} : n \in TopLevelNames}

\* The types the renderer is asked about.
RenderArgs ==
    {tString, LeafClass, PlainUnion, NullableUnion, CaseEnum,
     ArrayType(PlainUnion), ArrayType(NullableUnion), ArrayType(CaseEnum),
     MapType(LeafClass), UnionType(sB, <<tString, CaseEnum>>),
     ClassType(sB, <<>>)}

(***************************************************************************)
(* Run.parseJsonFromStream: the data handler of the stream-json source.    *)
(* A chunk is [name, value]; the assembler is kept as the sequence of      *)
(* chunks handed to assemble.                                              *)
(***************************************************************************)
NoValue == <<>>
Chunk(name, value) == [name |-> name, value |-> value]

intSentinel == <<"intSentinel">>

DecimalDigits == {"0", "1", "2", "3", "4", "5", "6", "7", "8", "9"}

\* The test ^-?\d+$ of the specification: digits after an optional minus sign.
isIntSigned(intString) ==
    LET digits == IF intString /= <<>> /\ Head(intString) = "-"
                  THEN Tail(intString) ELSE intString
    IN  /\ digits /= <<>>
        /\ \A i \in 1 .. Len(digits) : digits[i] \in DecimalDigits

\* /^\d+$/.test(intString)
isInt(intString) ==
    /\ intString /= <<>>
    /\ \A i \in 1 .. Len(intString) : intString[i] \in DecimalDigits

intSentinelChunks(intString) ==
    <<Chunk("startObject", NoValue),
      Chunk("startKey", NoValue),
      Chunk("stringChunk", intSentinel),
      Chunk("endKey", NoValue),
      Chunk("keyValue", intSentinel),
      Chunk("startNumber", NoValue),
      Chunk("numberChunk", intString),
      Chunk("endNumber", NoValue),
      Chunk("numberValue", intString),
      Chunk("endObject", NoValue)>>

NewParser(input) ==
    [phase |-> "reading",
     input |-> input,
     queue |-> <<>>,
     assembled |-> <<>>,
     number |-> NoResult]

\* The data handler without its queue = [] (a variant for comparison).
onDataKeepingQueue(ps, chunk) ==
    CASE chunk.name \in {"startNumber", "numberChunk", "endNumber"} ->
            [ps EXCEPT !.queue = Append(@, chunk)]
      [] chunk.name = "numberValue" ->
            LET queue == Append(ps.queue, chunk)
                out == IF isInt(chunk.value)
                       THEN intSentinelChunks(chunk.value)
                       ELSE queue
            IN  [ps EXCEPT !.assembled = @ \o out,
                           !.queue = queue,
                           !.number = [value |-> chunk.value,
                                       queued |-> queue,
                                       assembled |-> out]]
      [] OTHER -> [ps EXCEPT !.assembled = Append(@, chunk)]

\* source.output.on("data", ...): the parser after one chunk.  number keeps
\* the last numberValue and the chunks that were assembled for it.
onData(ps, chunk) ==
    CASE chunk.name \in {"startNumber", "numberChunk", "endNumber"} ->
            [ps EXCEPT !.queue = Append(@, chunk)]
      [] chunk.name = "numberValue" ->
            LET queue == Append(ps.queue, chunk)
                out == IF isInt(chunk.value)
                       THEN intSentinelChunks(chunk.value)
                       ELSE queue
            IN  [ps EXCEPT !.assembled = @ \o out,
                           !.queue = <<>>,
                           !.number = [value |-> chunk.value,
                                       queued |-> queue,
                                       assembled |-> out]]
      [] OTHER -> [ps EXCEPT !.assembled = Append(@, chunk)]

(***************************************************************************)
(* The streams parseJsonFromStream reads: the chunks stream-json emits for *)
(* a number, a string, an array of two numbers and an object of one key.   *)
(***************************************************************************)
NumberTexts ==
    {<<"5">>, <<"1", "2">>, <<"-", "5">>, <<"1", ".", "5">>,
     <<"-", "1", ".", "5">>}

\* The chunks of a number literal whose text arrives in one or two pieces.
NumberChunks(text) ==
    {<<Chunk("startNumber", NoValue), Chunk("numberChunk", text),
       Chunk("endNumber", NoValue), Chunk("numberValue", text)>>}
        \cup {<<Chunk("startNumber", NoValue),
                Chunk("numberChunk", SubSeq(text, 1, 1)),
                Chunk("numberChunk", SubSeq(text, 2, Len(text))),
                Chunk("endNumber", NoValue), Chunk("numberValue", text)>> :
                  x \in {y \in {text} : Len(y) > 1}}

AllNumberChunks == UNION {NumberChunks(text) : text \in NumberTexts}

StringChunks ==
    <<Chunk("startString", NoValue), Chunk("stringChunk", <<"s">>),
      Chunk("endString", NoValue), Chunk("stringValue", <<"s">>)>>

KeyChunks ==
    <<Chunk("startKey", NoValue), Chunk("stringChunk", <<"k">>),
      Chunk("endKey", NoValue), Chunk("keyValue", <<"k">>)>>

Streams ==
    AllNumberChunks
        \cup {StringChunks}
        \cup {<<Chunk("startArray", NoValue)>> \o n \o m
                  \o <<Chunk("endArray", NoValue)>> :
                  n \in AllNumberChunks, m \in AllNumberChunks}
        \cup {<<Chunk("startObject", NoValue)>> \o KeyChunks \o n
                  \o <<Chunk("endObject", NoValue)>> : n \in AllNumberChunks}

(***************************************************************************)
(* The code emitConvertModule emits with runtime-typecheck: cast, isValid  *)
(* and its helpers, the typ constructors and the type map.  JavaScript     *)
(* values are records tagged with js.                                      *)
(***************************************************************************)
JsUndefined == [js |-> "undefined"]
JsNull == [js |-> "null"]
JsBoolean(b) == [js |-> "boolean", b |-> b]
JsNumber(n) == [js |-> "number", n |-> n]
JsString(str) == [js |-> "string", str |-> str]
JsArray(items) == [js |-> "array", items |-> items]
JsObject(fields) == [js |-> "object", fields |-> fields]

\* !!val
Truthy(val) ==
    CASE val.js \in {"undefined", "null"} -> FALSE
      [] val.js = "boolean" -> val.b
      [] val.js = "number" -> val.n /= 0
      [] val.js = "string" -> val.str /= <<>>
      [] OTHER -> TRUE

\* typeof val
TypeOf(val) ==
    CASE val.js \in {"null", "array", "object"} -> "object"
      [] OTHER -> val.js

\* The typ values the emitted type map is made of.
typPrimitive(name) == [rep |-> "primitive", name |-> name]
typArray(typ) == [rep |-> "array", typ |-> typ]
typUnion(typs) == [rep |-> "union", typs |-> typs]
typMap(typ) == [rep |-> "map", typ |-> typ]
typObject(className) == [rep |-> "object", cls |-> className]

\* The value of the expression typeMapTypeFor emits for a type.
RECURSIVE TypFor(_)
TypFor(t) ==
    CASE t.kind \in {"any", "null"} -> typPrimitive("undefined")
      [] t.kind = "bool" -> typPrimitive("boolean")
      [] t.kind \in {"integer", "double"} -> typPrimitive("number")
      [] t.kind = "string" -> typPrimitive("string")
      [] t.kind = "array" -> typArray(TypFor(t.items))
      [] t.kind = "class" -> typObject(t.names)
      [] t.kind = "map" -> typMap(TypFor(t.values))
      [] t.kind = "union" ->
            typUnion([i \in 1 .. Len(t.members) |-> TypFor(t.members[i])])

\* emitTypeMap: for each class, the typ of each of its properties.
emitTypeMap(classes) ==
    [i \in 1 .. Len(classes) |->
        <<classes[i].names,
          [j \in 1 .. Len(classes[i].properties) |->
              <<classes[i].properties[j][1],
                TypFor(classes[i].properties[j][2])>>]>>]

\* val[prop]: JsTypeError stands for the exception of reading a property of
\* null or undefined.
JsTypeError == [js |-> "TypeError"]

Member(val, prop) ==
    IF val.js \in {"null", "undefined"} THEN JsTypeError
    ELSE IF val.js = "object" /\ Has(val.fields, prop)
    THEN Get(val.fields, prop)
    ELSE JsUndefined

\* The text of the array indices 0, 1, 2, ...
IndexDigits == <<"0", "1", "2", "3", "4">>

\* The property names a for-in loop over val visits.
ForIn(val) ==
    IF val.js = "object"
    THEN [i \in 1 .. Len(val.fields) |-> val.fields[i][1]]
    ELSE IF val.js = "array"
    THEN [i \in 1 .. Len(val.items) |-> <<IndexDigits[i]>>]
    ELSE <<>>

pop(path) == IF path = <<>> THEN <<>> ELSE SubSeq(path, 1, Len(path) - 1)

isValidPrimitive(typ, val) ==
    IF typ = "undefined" THEN ~Truthy(val) ELSE typ = TypeOf(val)

\* isValid and its helpers return [ok, path]: ok is "true", "false" or
\* "TypeError", path is the module's path array afterwards.
Bool(b) == IF b THEN "true" ELSE "false"
RECURSIVE isValid(_, _, _, _)
RECURSIVE isValidUnion(_, _, _, _)
RECURSIVE isValidArray(_, _, _, _, _)
RECURSIVE isValidMap(_, _, _, _, _)
RECURSIVE isValidObject(_, _, _, _, _)
isValid(typeMap, typ, val, path) ==
    CASE typ.rep = "union" -> isValidUnion(typeMap, typ.typs, val, path)
      [] typ.rep = "array" -> isValidArray(typeMap, typ.typ, val, 1, path)
      [] typ.rep = "map" -> isValidMap(typeMap, typ.typ, val, 1, path)
      [] typ.rep = "object" ->
            isValidObject(typeMap, typ.cls, val, 1, path)
      [] OTHER -> [ok |-> Bool(isValidPrimitive(typ.name, val)), path |-> path]

\* typs.find(typ => isValid(typ, val)) !== undefined
isValidUnion(typeMap, typs, val, path) ==
    IF typs = <<>> THEN [ok |-> "false", path |-> path]
    ELSE LET first == isValid(typeMap, Head(typs), val, path)
         IN  IF first.ok = "false"
             THEN isValidUnion(typeMap, Tail(typs), val, first.path)
             ELSE first

\* Array.isArray(val) && !val.find(...): find returns the first element that
\* is not valid, and the array counts as invalid when that element is truthy.
isValidArray(typeMap, typ, val, i, path) ==
    IF val.js /= "array" THEN [ok |-> "false", path |-> path]
    ELSE IF i > Len(val.items) THEN [ok |-> "true", path |-> path]
    ELSE LET element == isValid(typeMap, typ, val.items[i],
                                Append(path, [index |-> i - 1]))
         IN  IF element.ok = "true"
             THEN isValidArray(typeMap, typ, val, i + 1, pop(element.path))
             ELSE IF element.ok = "false"
             THEN [ok |-> Bool(~Truthy(val.items[i])), path |-> element.path]
             ELSE element

\* for (const prop in val) { if (!!prop) continue; ... }
isValidMap(typeMap, typ, val, i, path) ==
    IF i > Len(ForIn(val)) THEN [ok |-> "true", path |-> path]
    ELSE LET prop == ForIn(val)[i]
         IN  IF prop /= <<>>
             THEN isValidMap(typeMap, typ, val, i + 1, path)
             ELSE LET value == isValid(typeMap, typ, Member(val, prop),
                                       Append(path, [key |-> prop]))
                  IN  IF value.ok = "true"
                      THEN isValidMap(typeMap, typ, val, i + 1,
                                      pop(value.path))
                      ELSE value

\* for (const prop in typeRep) { if (!!prop) continue; ... }
isValidObject(typeMap, className, val, i, path) ==
    LET typeRep == IF Has(typeMap, className) THEN Get(typeMap, className)
                   ELSE <<>>
    IN  IF i > Len(typeRep) THEN [ok |-> "true", path |-> path]
        ELSE LET prop == typeRep[i][1]
             IN  IF prop /= <<>>
                 THEN isValidObject(typeMap, className, val, i + 1, path)
                 ELSE IF Member(val, prop) = JsTypeError
                 THEN [ok |-> "TypeError", path |-> Append(path, [property |-> prop])]
                 ELSE LET value == isValid(typeMap, typeRep[i][2],
                                           Member(val, prop),
                                           Append(path, [property |-> prop]))
                      IN  IF value.ok = "true"
                          THEN isValidObject(typeMap, className, val, i + 1,
                                             pop(value.path))
                          ELSE value

\* cast(obj, typ): the value returned, or the error thrown.
castCall(typeMap, obj, typ) ==
    LET valid == isValid(typeMap, typ, obj, <<>>)
    IN  IF valid.ok = "true" THEN Return(obj)
        ELSE IF valid.ok = "false"
        THEN Throw([message |-> "Invalid value: obj", path |-> valid.path])
        ELSE Throw([message |-> "TypeError", path |-> valid.path])

(***************************************************************************)
(* The types and the parsed JSON values Convert.toX is called with.        *)
(***************************************************************************)
\* An array value has at most MaxItems elements.
MaxItems == 1
\* The last portion of a file name has at most MaxNameLen characters.
MaxNameLen == 5
\* The command line names at most MaxSources sources.
MaxSources == 2
\* A render result carries at most MaxAnnotations annotations.
MaxAnnotations == 2
\* A Java output has at most MaxLines lines.
MaxLines == 4
\* A property name to be styled has at most MaxStyleLen characters.
MaxStyleLen == 3

tAny == PrimitiveType("any")
tBool == PrimitiveType("bool")

\* A class whose one property has the empty string as its JSON name.
EmptyKeyClass == ClassType(sUpperB, <<<<<<>>, tInteger>>>>)
ListClass == ClassType(sUpperA, <<<<sA, ArrayType(tString)>>, <<sB, tNull>>>>)

CastClasses == <<LeafClass, EmptyKeyClass, ListClass>>

CastTypes ==
    {tAny, tNull, tBool, tInteger, tString,
     ArrayType(tString), ArrayType(tInteger), ArrayType(LeafClass),
     MapType(tString), MapType(tInteger),
     LeafClass, EmptyKeyClass, ListClass, PlainUnion, NullableUnion}

JsAtoms ==
    {JsNull, JsBoolean(TRUE), JsBoolean(FALSE), JsNumber(0), JsNumber(1),
     JsString(<<>>), JsString(sA)}

JsObjects ==
    {JsObject(<<>>)}
        \cup {JsObject(<<<<k, v>>>>) : k \in {sA, <<>>}, v \in JsAtoms}

JsArrays(max) ==
    UNION {{JsArray(items) : items \in [1 .. n -> JsAtoms \cup JsObjects]} :
               n \in 0 .. max}

JsValues ==
    JsAtoms \cup JsObjects \cup JsArrays(MaxItems)
        \cup {JsObject(<<<<sA, a>>>>) : a \in JsArrays(MaxItems)}

(***************************************************************************)
(* TypeScriptRenderer.emitClass: the lines of an interface.  A property's  *)
(* line is kept as its parts: the rendered name, the "?" or nothing, the   *)
(* whitespace after the colon, and the type.                               *)
(***************************************************************************)
\* " ".repeat(n)
repeat(n) == [i \in 1 .. n |-> " "]

\* t instanceof UnionType && nullableFromUnion(t)
nullableOf(t) ==
    IF t.kind = "union" THEN nullableFromUnionType(t) ELSE Nothing

\* this.sourcelikeToString(name): the final spelling of the name.
sourcelikeToString(r, name) == r.names[name]

\* The first pass over the properties: maxWidth.
RECURSIVE maxWidthOf(_, _)
maxWidthOf(r, properties) ==
    IF properties = <<>> THEN 0
    ELSE LET p == Head(properties)
             width == Len(sourcelikeToString(r, p.name))
                          + (IF isJust(nullableOf(p.t)) THEN 1 ELSE 0)
             rest == maxWidthOf(r, Tail(properties))
         IN  IF width > rest THEN width ELSE rest

\* The line the second pass emits for one property.
propertyLine(r, p, maxWidth, nullableIndent) ==
    LET nullable == nullableOf(p.t)
        nameRendered == sourcelikeToString(r, p.name)
        indent == maxWidth - Len(nameRendered) + 1 + nullableIndent
        whitespace == repeat(IF indent > 1 THEN indent ELSE 1)
        type == sourceFor(r, IF isJust(nullable) THEN nullable.val ELSE p.t)
    IN  IF type.tag = "Throw" THEN type
        ELSE Return([name |-> nameRendered,
                     optional |-> IF isJust(nullable) THEN <<"?">> ELSE <<>>,
                     whitespace |-> whitespace,
                     type |-> type.val])

RECURSIVE propertyLines(_, _, _, _)
propertyLines(r, properties, maxWidth, indentFor) ==
    IF properties = <<>> THEN Return(<<>>)
    ELSE LET p == Head(properties)
             line == propertyLine(r, p, maxWidth,
                                  indentFor[isJust(nullableOf(p.t))])
         IN  IF line.tag = "Throw" THEN line
             ELSE LET rest == propertyLines(r, Tail(properties), maxWidth,
                                            indentFor)
                  IN  IF rest.tag = "Throw" THEN rest
                      ELSE Return(<<line.val>> \o rest.val)

\* emitClass with no nullableIndent (a variant for comparison).
emitClassPlainIndent(r, c, className) ==
    LET properties == forEachProperty(r, c)
        lines == propertyLines(r, properties, maxWidthOf(r, properties),
                               [nullable \in BOOLEAN |-> 0])
    IN  IF lines.tag = "Throw" THEN lines
        ELSE Return([header |-> <<Lit("export interface "),
                                  NameRef(className), Lit(" {")>>,
                     lines |-> lines.val])

\* emitClass: the interface emitted for class c, or what it throws.
emitClass(r, c, className) ==
    LET properties == forEachProperty(r, c)
        includesNullableProperties ==
            \E i \in 1 .. Len(properties) : isJust(nullableOf(properties[i].t))
        lines == propertyLines(r, properties, maxWidthOf(r, properties),
                               [nullable \in BOOLEAN |->
                                    IF includesNullableProperties /\ ~nullable
                                    THEN 1 ELSE 0])
    IN  IF lines.tag = "Throw" THEN lines
        ELSE Return([header |-> <<Lit("export interface "),
                                  NameRef(className), Lit(" {")>>,
                     lines |-> lines.val])

(***************************************************************************)
(* ConvenienceRenderer.emitSource and TypeScriptRenderer's                 *)
(* emitSourceStructure: the named types to emit, and what emitting them    *)
(* returns or throws.                                                      *)
(***************************************************************************)
\* The first of the results that is thrown, or all their values.
RECURSIVE allOrThrow(_)
allOrThrow(results) ==
    IF results = <<>> THEN Return(<<>>)
    ELSE IF Head(results).tag = "Throw" THEN Head(results)
    ELSE LET rest == allOrThrow(Tail(results))
         IN  IF rest.tag = "Throw" THEN rest
             ELSE Return(<<Head(results).val>> \o rest.val)

\* emitUnion: the line of a named union.
emitUnion(r, u, unionName) ==
    LET children == sourceForChildren(r, u.members)
    IN  IF children.tag = "Throw" THEN children
        ELSE Return(<<Lit("export type "), NameRef(unionName), Lit(" = ")>>
                        \o children.val \o <<Lit(";")>>)

\* callForNamedType(t, f) for each of the types, f being emitUnion or
\* emitClass: defined(...) throws when the type has no name.
emitNamedTypes(r, types, what) ==
    allOrThrow([i \in 1 .. Len(types) |->
                   IF ~Has(r._namesForNamedTypes, types[i])
                   THEN Throw("Defined value expected.")
                   ELSE IF what = "union"
                   THEN emitUnion(r, types[i],
                                  Get(r._namesForNamedTypes, types[i]))
                   ELSE emitClass(r, types[i],
                                  Get(r._namesForNamedTypes, types[i]))])

\* The names of the top levels that are named types, for the import line.
importedNames(r) ==
    LET namedTopLevels == SelectSeq(r.topLevels, LAMBDA tl : isNamedType(tl[2]))
    IN  allOrThrow([i \in 1 .. Len(namedTopLevels) |->
                       nameForNamedType(r, namedTopLevels[i][2]).result])

\* emitTypeMap: typeMapTypeFor of every property of every class.
emitTypeMapTypes(r) ==
    allOrThrow([i \in 1 .. Len(r._namedClasses) |->
        IF ~Has(r._namesForNamedTypes, r._namedClasses[i])
        THEN Throw("Defined value expected.")
        ELSE LET properties == forEachProperty(r, r._namedClasses[i])
             IN  allOrThrow([j \in 1 .. Len(properties) |->
                                typeMapTypeFor(r, properties[j].t)])])

\* emitConvertModule: the types of the functions of each top level, and the
\* type map with runtime-typecheck.
emitConvertModule(r, runtimeTypecheck) ==
    LET functions ==
            allOrThrow([i \in 1 .. Len(r.topLevels) |->
                allOrThrow(<<sourceFor(r, r.topLevels[i][2])>>
                    \o (IF runtimeTypecheck
                        THEN <<typeMapTypeFor(r, r.topLevels[i][2])>>
                        ELSE <<>>)
                    \o <<sourceFor(r, r.topLevels[i][2])>>)])
    IN  IF functions.tag = "Throw" THEN functions
        ELSE IF runtimeTypecheck THEN emitTypeMapTypes(r)
        ELSE Return(<<>>)

emitSourceStructure(r, justTypes, runtimeTypecheck) ==
    LET imports == IF justTypes THEN Return(<<>>) ELSE importedNames(r)
        unions == IF ~r.inlineUnions /\ r._namedUnions /= <<>>
                  THEN emitNamedTypes(r, r._namedUnions, "union")
                  ELSE Return(<<>>)
        classes == emitNamedTypes(r, r._namedClasses, "class")
        convert == IF justTypes THEN Return(<<>>)
                   ELSE emitConvertModule(r, runtimeTypecheck)
    IN  IF imports.tag = "Throw" THEN imports
        ELSE IF unions.tag = "Throw" THEN unions
        ELSE IF classes.tag = "Throw" THEN classes
        ELSE IF convert.tag = "Throw" THEN convert
        ELSE Return([unions |-> unions.val, classes |-> classes.val])

\* emitSource: the renderer with its named types set, and what
\* emitSourceStructure returned or threw.
emitSource(r, justTypes, runtimeTypecheck) ==
    LET types == allNamedTypes(r.topLevels)
        namedTypes == SelectSeq(types, LAMBDA t :
                                    t.kind /= "union" \/ unionNeedsName(t))
        assigned == [_haveUnions |-> \E i \in 1 .. Len(types) :
                                         types[i].kind = "union",
                     _namedTypes |-> namedTypes,
                     _namedClasses |-> SelectSeq(namedTypes,
                                                 LAMBDA t : t.kind = "class"),
                     _namedEnums |-> SelectSeq(namedTypes,
                                               LAMBDA t : t.kind = "enum"),
                     _namedUnions |-> SelectSeq(namedTypes,
                                                LAMBDA t : t.kind = "union")]
                        @@ r
    IN  CHOOSE emitted \in
            {[r |-> set,
              result |-> emitSourceStructure(set, justTypes, runtimeTypecheck)] :
                 set \in {assigned}} : TRUE

(***************************************************************************)
(* The top levels whose source is emitted: one class A whose properties    *)
(* have names of different lengths and types of every kind of reference.   *)
(***************************************************************************)
sAB == <<"a", "b">>
NullableString == UnionType(sB, <<tNull, tString>>)
EmitJsonNames == {sA, sAB, sOne}
EmitPropertyTypes ==
    {tString, NullableString, NullableUnion, PlainUnion,
     ArrayType(PlainUnion), LeafClass}

\* Property maps: up to max distinct JSON names, each of any of the types.
EmitPropertyLists(max) ==
    UNION {{[i \in 1 .. n |-> <<f[i], t[i]>>] :
                f \in {g \in [1 .. n -> EmitJsonNames] :
                           \A i, j \in 1 .. n : i /= j => g[i] /= g[j]},
                t \in [1 .. n -> EmitPropertyTypes]} :
               n \in 1 .. max}

\* A second top level: a union, nullable or not, or an array of classes.
OtherTopLevels ==
    {NullableUnion, PlainUnion, UnionType(sA, <<LeafClass, tString>>),
     ArrayType(LeafClass)}

EmitTopLevels ==
    {<<<<sUpperA, ClassType(sB, pl)>>>> : pl \in EmitPropertyLists(MaxProperties)}
        \cup {<<<<sUpperA, ClassType(sB, pl)>>, <<sUpperB, t>>>> :
                  pl \in EmitPropertyLists(1), t \in OtherTopLevels}

(***************************************************************************)
(* The command line: option inference.  File names are strings; path and   *)
(* String are Node's.                                                      *)
(***************************************************************************)
\* The position of the last occurrence of the character c in s, or 0.
RECURSIVE lastIndexOf(_, _)
lastIndexOf(s, c) ==
    IF s = <<>> THEN 0
    ELSE IF s[Len(s)] = c THEN Len(s)
    ELSE lastIndexOf(SubSeq(s, 1, Len(s) - 1), c)

\* The position of the first occurrence of the string pattern in s, or 0.
indexOf(s, pattern) ==
    LET hits == {i \in 1 .. Len(s) - Len(pattern) + 1 :
                     SubSeq(s, i, i + Len(pattern) - 1) = pattern}
    IN  IF hits = {} THEN 0
        ELSE CHOOSE i \in hits : \A j \in hits : i <= j

\* s.replace(pattern, ""), pattern a string: its first occurrence is removed.
replace(s, pattern) ==
    LET i == indexOf(s, pattern)
    IN  IF i = 0 THEN s
        ELSE SubSeq(s, 1, i - 1) \o SubSeq(s, i + Len(pattern), Len(s))

\* s.substr(1)
substr1(s) == SubSeq(s, 2, Len(s))

\* A path without its trailing slashes.
RECURSIVE stripSlashes(_)
stripSlashes(p) ==
    IF p /= <<>> /\ p[Len(p)] = "/" THEN stripSlashes(SubSeq(p, 1, Len(p) - 1))
    ELSE p

\* path.basename(p): the last portion of the path.
basename(p) ==
    LET q == stripSlashes(p)
    IN  SubSeq(q, lastIndexOf(q, "/") + 1, Len(q))

\* path.extname(p): from the last dot of the last portion to its end; empty
\* when there is no dot, when the dot is the portion's first character, and
\* for the portion "..".
extname(p) ==
    LET b == basename(p)
        dot == lastIndexOf(b, ".")
    IN  IF dot = 0 \/ dot = 1 \/ b = <<".", ".">> THEN <<>>
        ELSE SubSeq(b, dot, Len(b))

\* process.exit(code): the run ends here.
Exit(code) == [kind |-> "exit", code |-> code]
Value(v) == [kind |-> "value", value |-> v]

\* x || y on optional strings: x when it is present and not empty.
Present(option) == isJust(option) /\ option.val /= <<>>

sGo == <<"g", "o">>
sTopLevel == <<"T", "o", "p", "L", "e", "v", "e", "l">>

inferLang(options) ==
    IF Present(options.out)
    THEN LET extension == extname(options.out.val)
         IN  IF extension = <<>> THEN Exit(1)
             ELSE Value(substr1(extension))
    ELSE Value(sGo)

inferTopLevel(options) ==
    IF Present(options.out)
    THEN LET extension == extname(options.out.val)
         IN  replace(basename(options.out.val), extension)
    ELSE IF Len(options.src) = 1
    THEN LET src == options.src[1]
             extension == extname(src)
         IN  replace(basename(src), extension)
    ELSE sTopLevel

\* inferOptions: the inferred values, then the options given spread over
\* them; lang is computed first and may end the process.
inferOptions(opts) ==
    LET lang == IF Present(opts.lang) THEN Value(opts.lang.val)
                ELSE inferLang(opts)
        topLevel == IF Present(opts.topLevel) THEN opts.topLevel.val
                    ELSE inferTopLevel(opts)
    IN  IF lang.kind = "exit" THEN lang
        ELSE Value([src |-> opts.src,
                    lang |-> IF isJust(opts.lang) THEN opts.lang.val
                             ELSE lang.value,
                    topLevel |-> IF isJust(opts.topLevel)
                                 THEN opts.topLevel.val ELSE topLevel,
                    out |-> opts.out])

\* The file names of the model: a directory or none, and a last portion of
\* up to MaxNameLen characters.
RECURSIVE Strings(_, _)
Strings(alphabet, n) ==
    IF n = 0 THEN {<<>>}
    ELSE LET shorter == Strings(alphabet, n - 1)
         IN  shorter \cup {<<c>> \o s : c \in alphabet,
                               s \in {t \in shorter : Len(t) = n - 1}}

Directories == {<<>>, <<"a", "/">>, <<"a", ".", "b", "/">>}
FileNames ==
    {d \o f : d \in Directories,
              f \in Strings({"a", "b", "."}, MaxNameLen) \ {<<>>}}
SourceLists ==
    {<<>>, <<<<"a", ".", "b">>>>, <<<<"a", "/", "b", "b">>>>,
     <<<<"a", ".", "b", "a", ".", "b">>>>, <<<<"a">>, <<"b", ".", "a">>>>}
OptionSets ==
    [out : {Nothing} \cup {Just(f) : f \in FileNames},
     lang : {Nothing, Just(<<"b">>)},
     topLevel : {Nothing, Just(<<"T">>)},
     src : SourceLists]

(***************************************************************************)
(* The command line: main.  A source named on the command line is a file,  *)
(* a directory, or a URL (a name no file has); calls lists what main has   *)
(* called so far.                                                          *)
(***************************************************************************)
SourceKinds == {"file", "directory", "url"}

\* fs.lstatSync(x): the kind of an existing path; it throws for a name that
\* is no path of the file system.
lstatSync(x) == IF x = "url" THEN Throw("ENOENT") ELSE Return(x)

\* options.src.filter(x => fs.lstatSync(x).isDirectory()), and isFile()
RECURSIVE filterKind(_, _)
filterKind(src, kind) ==
    IF src = <<>> THEN Return(<<>>)
    ELSE LET stat == lstatSync(Head(src))
             rest == filterKind(Tail(src), kind)
         IN  IF stat.tag = "Throw" THEN stat
             ELSE IF rest.tag = "Throw" THEN rest
             ELSE Return((IF stat.val = kind THEN <<Head(src)>> ELSE <<>>)
                             \o rest.val)

\* The sources the file named by --src-urls lists.
urlsFromJsonGrammar == <<"url">>

\* main up to its first await: the branch taken, what it called and what it
\* is left to read before it renders.
mainEnter(options) ==
    IF options.help
    THEN [phase |-> "done", calls |-> <<"usage">>, pending |-> <<>>]
    ELSE IF options.srcUrls
    THEN [phase |-> "reading", calls |-> <<>>, pending |-> urlsFromJsonGrammar]
    ELSE IF options.graphql
    THEN [phase |-> "done", calls |-> <<"readGraphQLSchema">>,
          pending |-> <<>>]
    ELSE IF Len(options.src) = 0
    THEN [phase |-> "reading", calls |-> <<>>, pending |-> <<"stdin">>]
    ELSE LET directories == filterKind(options.src, "directory")
             files == filterKind(options.src, "file")
         IN  IF directories.tag = "Throw"
             THEN [phase |-> "failed", calls |-> <<>>, pending |-> <<>>]
             ELSE [phase |-> "reading", calls |-> <<>>,
                   pending |-> directories.val \o files.val]

\* One awaited read: a directory's samples, or a file, URL or stdin parsed.
readSource(source) ==
    IF source = "directory" THEN "readNamedSamplesFromDirectory"
    ELSE "parseJsonFromStream"

MainOptions ==
    [help : BOOLEAN, srcUrls : BOOLEAN, graphql : BOOLEAN,
     src : UNION {[1 .. n -> SourceKinds] : n \in 0 .. MaxSources}]

(***************************************************************************)
(* The command line: render.  effects lists, in order, what render wrote   *)
(* and what it reported on the error console.                              *)
(***************************************************************************)
\* An annotation of the render result: its data and the line, counted from
\* 0, its span starts on.
IssueAnnotationData(message) == [kind |-> "Issue", message |-> message]
HoverAnnotationData(text) == [kind |-> "Hover", message |-> text]
Annotation(data, line) ==
    [annotation |-> data, span |-> [start |-> [line |-> line]]]

\* lines.join("\n")
RECURSIVE join(_, _)
join(lines, separator) ==
    IF lines = <<>> THEN <<>>
    ELSE IF Len(lines) = 1 THEN lines[1]
    ELSE lines[1] \o separator \o join(Tail(lines), separator)

\* path.dirname(p)
dirname(p) ==
    LET q == stripSlashes(p)
        slash == lastIndexOf(q, "/")
    IN  IF slash = 0 THEN <<".">> ELSE SubSeq(q, 1, slash - 1)

\* annotations.forEach(...): two lines on the error console for each issue.
RECURSIVE reportAll(_, _)
reportAll(annotations, lines) ==
    IF annotations = <<>> THEN <<>>
    ELSE LET sa == Head(annotations)
             lineNumber == sa.span.start.line
             humanLineNumber == lineNumber + 1
         IN  <<[op |-> "console.error", what |-> "issue",
                line |-> humanLineNumber, text |-> sa.annotation.message],
               [op |-> "console.error", what |-> "line",
                line |-> humanLineNumber, text |-> lines[lineNumber + 1]]>>
                 \o reportAll(Tail(annotations), lines)

RECURSIVE reportIssues(_, _)
reportIssues(annotations, lines) ==
    IF annotations = <<>> THEN <<>>
    ELSE LET sa == Head(annotations)
             lineNumber == sa.span.start.line
             humanLineNumber == lineNumber + 1
         IN  (IF sa.annotation.kind /= "Issue" THEN <<>>
              ELSE <<[op |-> "console.error", what |-> "issue",
                      line |-> humanLineNumber,
                      text |-> sa.annotation.message],
                     [op |-> "console.error", what |-> "line",
                      line |-> humanLineNumber,
                      text |-> lines[lineNumber + 1]]>>)
                 \o reportIssues(Tail(annotations), lines)

\* The output written: to the files of a Java output, to the out file, or
\* to stdout.
writeOutput(options, output) ==
    IF Present(options.out)
    THEN IF options.lang = <<"j", "a", "v", "a">>
         THEN [op |-> "splitAndWriteJava", what |-> "output",
               line |-> 0, text |-> dirname(options.out.val) \o <<":">> \o output]
         ELSE [op |-> "fs.writeFileSync", what |-> "output",
               line |-> 0, text |-> options.out.val \o <<":">> \o output]
    ELSE [op |-> "process.stdout.write", what |-> "output",
          line |-> 0, text |-> output]

\* render reporting every annotation (a variant for comparison).
renderReportingAll(options, result) ==
    LET output == join(result.lines, <<"\n">>)
    IN  <<writeOutput(options, output)>>
            \o (IF options.quiet THEN <<>>
                ELSE reportAll(result.annotations, result.lines))

\* render, given the result of renderSamplesOrSchemas: the effects it has.
render(options, result) ==
    LET output == join(result.lines, <<"\n">>)
    IN  <<writeOutput(options, output)>>
            \o (IF options.quiet THEN <<>>
                ELSE reportIssues(result.annotations, result.lines))

\* The render results of the model: two lines of source and up to
\* MaxAnnotations annotations on them.
RenderedLines == <<<<"a">>, <<"b", "b">>>>
Annotations ==
    {Annotation(d, line) :
         d \in {IssueAnnotationData(<<"p">>), HoverAnnotationData(<<"q">>)},
         line \in 0 .. Len(RenderedLines) - 1}
RenderResults ==
    [lines : {RenderedLines},
     annotations : UNION {[1 .. n -> Annotations] : n \in 0 .. MaxAnnotations}]
RenderOptions ==
    [out : {Nothing, Just(<<"a", "/", "b", ".", "a">>)},
     lang : {<<"j", "a", "v", "a">>, <<"b">>},
     quiet : BOOLEAN]

(***************************************************************************)
(* The command line: splitAndWriteJava.  The state of its loop is the      *)
(* lines, the index i counted from 0, filename (Nothing for null),         *)
(* currentFileContents and the files written so far.                       *)
(***************************************************************************)
StartsWith(s, prefix) ==
    /\ Len(s) >= Len(prefix)
    /\ SubSeq(s, 1, Len(prefix)) = prefix

sMarker == <<"/", "/", " ">>
sDotJava == <<".", "j", "a", "v", "a">>

\* line.match("^// (.+\\.java)$"): its first group, or Nothing for null.
matchJava(line) ==
    IF /\ StartsWith(line, sMarker)
       /\ EndsWith(line, sDotJava)
       /\ Len(line) > Len(sMarker) + Len(sDotJava)
    THEN Just(SubSeq(line, Len(sMarker) + 1, Len(line)))
    ELSE Nothing

\* path.join(dir, filename)
pathJoin(dir, filename) == dir \o <<"/">> \o filename

\* writeFile(): the file is written if there is a filename, and filename and
\* currentFileContents are reset.
writeFile(st) ==
    [st EXCEPT
        !.written = IF isJust(st.filename)
                    THEN Append(@, [file |-> pathJoin(st.dir, st.filename.val),
                                    data |-> st.currentFileContents])
                    ELSE @,
        !.filename = Nothing,
        !.currentFileContents = <<>>]

\* while (lines[i] === "") i++; lines[i] is undefined past the last line.
RECURSIVE skipBlank(_, _)
skipBlank(lines, i) ==
    IF i < Len(lines) /\ lines[i + 1] = <<>> THEN skipBlank(lines, i + 1)
    ELSE i

\* One round of the loop without the skipping of blank lines (a variant for
\* comparison).
splitStepKeepingBlanks(st) ==
    LET line == st.lines[st.i + 1]
        results == matchJava(line)
    IN  IF ~isJust(results)
        THEN [st EXCEPT !.i = st.i + 1,
                        !.currentFileContents = @ \o line \o <<"\n">>]
        ELSE [writeFile(st) EXCEPT !.filename = results, !.i = st.i + 1]

\* One round of while (i < lines.length).
splitStep(st) ==
    LET line == st.lines[st.i + 1]
        results == matchJava(line)
    IN  IF ~isJust(results)
        THEN [st EXCEPT !.i = st.i + 1,
                        !.currentFileContents = @ \o line \o <<"\n">>]
        ELSE [writeFile(st) EXCEPT !.filename = results,
                                   !.i = skipBlank(st.lines, st.i + 1)]

\* The lines str.split("\n") gives: markers, blank lines, a statement and a
\* comment that is no marker; at least one line and at most MaxLines.
JavaLines ==
    {<<"/", "/", " ", "A", ".", "j", "a", "v", "a">>,
     <<"/", "/", " ", "B", ".", "j", "a", "v", "a">>,
     <<>>, <<"x">>, <<"/", "/", " ", "x">>}
JavaOutputs == UNION {[1 .. n -> JavaLines] : n \in 1 .. MaxLines}

(***************************************************************************)
(* The property names propertyNameStyle is applied to: every string of up  *)
(* to MaxStyleLen characters over letters, a digit, the underscore, the    *)
(* characters stringEscape escapes, a space and a dot.                     *)
(***************************************************************************)
StyleAlphabet == {"a", "B", "_", "1", "\"", "\\", " ", "."}
StyleInputs == Strings(StyleAlphabet, MaxStyleLen)

(***************************************************************************)
(* Specification of unifyNamed.                                            *)
(***************************************************************************)
IdleNamed ==
    /\ named = [f |-> "union", a |-> Inferred({}), b |-> Inferred({})]
    /\ unified = NoResult

IdleUnion ==
    /\ union = emptyUnion
    /\ uop = "none"
    /\ uarg = IRNoInformation
    /\ uout = NoResult

IdleFollow == fi = [pc |-> "idle", start |-> 0, index |-> 0, steps |-> 0,
                    result |-> NoResult]

IdleCanon ==
    /\ graph0 = emptyGraph
    /\ passes = <<>>
    /\ before = emptyGraph
    /\ twice = [matched |-> 0, result |-> emptyGraph]

IdleGraph ==
    /\ graph = emptyGraph
    /\ IdleFollow
    /\ IdleCanon

IdleRenderer == renderer = [phase |-> "none"]
IdleParser == parser = [phase |-> "none"]
IdleCast == cast = [phase |-> "none"]
IdleCli == cli = [phase |-> "none"]

IdleFrontEnd ==
    /\ IdleRenderer
    /\ IdleParser
    /\ IdleCast
    /\ IdleCli

InitNamed ==
    /\ named \in [f : MergeFns, a : NamedSets, b : NamedSets]
    /\ unified = NoResult
    /\ IdleUnion
    /\ IdleGraph
    /\ IdleFrontEnd

UnifyNamed ==
    /\ unified = NoResult
    /\ unified' = unifyNamed(named.f, named.a, named.b)
    /\ UNCHANGED <<cli, renderer, parser, cast, named, union, uop, uarg, uout, graph, fi, graph0, passes, before, twice>>

NextNamed == UnifyNamed

SpecNamed == InitNamed /\ [][NextNamed]_vars

(***************************************************************************)
(* Specification of the union operations.                                  *)
(***************************************************************************)
InitUnion ==
    /\ union \in UnionReps
    /\ uop = "none"
    /\ uarg = IRNoInformation
    /\ uout = NoResult
    /\ IdleNamed
    /\ IdleGraph
    /\ IdleFrontEnd

ForUnion ==
    /\ uop = "none"
    /\ uop' = "forUnion_"
    /\ uout' = forUnion_(union)
    /\ UNCHANGED <<cli, renderer, parser, cast, named, unified, union, uarg, graph, fi, graph0, passes, before, twice>>

UnionToList ==
    /\ uop = "none"
    /\ uop' = "unionToList"
    /\ uout' = unionToList(union)
    /\ UNCHANGED <<cli, renderer, parser, cast, named, unified, union, uarg, graph, fi, graph0, passes, before, twice>>

IsUnionMember ==
    /\ uop = "none"
    /\ \E t \in MemberArgs :
        /\ uarg' = t
        /\ uout' = isUnionMember(t, union)
    /\ uop' = "isUnionMember"
    /\ UNCHANGED <<cli, renderer, parser, cast, named, unified, union, graph, fi, graph0, passes, before, twice>>

RemoveNullFromUnion ==
    /\ uop = "none"
    /\ uop' = "removeNullFromUnion"
    /\ uout' = removeNullFromUnion(union)
    /\ UNCHANGED <<cli, renderer, parser, cast, named, unified, union, uarg, graph, fi, graph0, passes, before, twice>>

NullableFromUnion ==
    /\ uop = "none"
    /\ uop' = "nullableFromUnion"
    /\ uout' = nullableFromUnion(union)
    /\ UNCHANGED <<cli, renderer, parser, cast, named, unified, union, uarg, graph, fi, graph0, passes, before, twice>>

NextUnion ==
    \/ ForUnion
    \/ UnionToList
    \/ IsUnionMember
    \/ RemoveNullFromUnion
    \/ NullableFromUnion

SpecUnion == InitUnion /\ [][NextUnion]_vars

(***************************************************************************)
(* Specification of followIndex on well-formed arenas.  A ClassId held by  *)
(* the program names a Class or a Redirect entry.                          *)
(***************************************************************************)
InitFollow ==
    /\ \E cs \in Arenas : graph = IRGraph(cs, EmptyMap)
    /\ IdleFollow
    /\ IdleCanon
    /\ IdleNamed
    /\ IdleUnion
    /\ IdleFrontEnd

FollowIndexEnter ==
    /\ fi.pc = "idle"
    /\ \E i \in 0 .. (Len(graph.classes) - 1) :
        /\ graph.classes[i + 1].tag /= "NoType"
        /\ fi' = [pc |-> "calling", start |-> i, index |-> i, steps |-> 0,
                  result |-> NoResult]
    /\ UNCHANGED <<cli, renderer, parser, cast, named, unified, union, uop, uarg, uout, graph, graph0, passes, before, twice>>

FollowIndexCall ==
    /\ fi.pc = "calling"
    /\ fi' = followIndexCall(graph, fi)
    /\ UNCHANGED <<cli, renderer, parser, cast, named, unified, union, uop, uarg, uout, graph, graph0, passes, before, twice>>

NextFollow ==
    \/ FollowIndexEnter
    \/ FollowIndexCall

SpecFollow == InitFollow /\ [][NextFollow]_vars /\ WF_vars(FollowIndexCall)

(***************************************************************************)
(* Specification of the canonicalization passes: regatherClassNames and    *)
(* regatherUnionNames applied to a graph in any order, any number of times.*)
(***************************************************************************)
InitCanon ==
    /\ graph \in CanonGraphs
    /\ graph0 = graph
    /\ passes = <<>>
    /\ before = graph
    /\ twice = [matched |-> 0, result |-> emptyGraph]
    /\ IdleFollow
    /\ IdleNamed
    /\ IdleUnion
    /\ IdleFrontEnd

\* The last two pass names, the newest last.
Passed(pass) ==
    IF passes = <<>> THEN <<pass>> ELSE <<passes[Len(passes)], pass>>

RegatherClassNames ==
    /\ graph' = regatherClassNames(graph)
    /\ before' = graph
    /\ passes' = Passed("regatherClassNames")
    /\ twice' = IF twice.matched \in {2, 4}
                THEN [matched |-> 3, result |-> graph]
                ELSE [matched |-> 1, result |-> emptyGraph]
    /\ UNCHANGED <<cli, renderer, parser, cast, named, unified, union, uop, uarg, uout, fi, graph0>>

RegatherUnionNames ==
    /\ graph' = regatherUnionNames(graph)
    /\ before' = graph
    /\ passes' = Passed("regatherUnionNames")
    /\ twice' = IF twice.matched = 1
                THEN [matched |-> 2, result |-> emptyGraph]
                ELSE IF twice.matched = 3
                THEN [matched |-> 4, result |-> twice.result]
                ELSE [matched |-> 0, result |-> emptyGraph]
    /\ UNCHANGED <<cli, renderer, parser, cast, named, unified, union, uop, uarg, uout, fi, graph0>>

NextCanon ==
    \/ RegatherClassNames
    \/ RegatherUnionNames

SpecCanon == InitCanon /\ [][NextCanon]_vars

(***************************************************************************)
(* Specification of the renderer: it is constructed on top levels, sets up *)
(* naming, has its names assigned and is then asked one thing.             *)
(***************************************************************************)
IdleIR ==
    /\ IdleNamed
    /\ IdleUnion
    /\ IdleGraph

InitRender ==
    /\ renderer \in {NewRenderer(tl, iu) :
                         tl \in RenderTopLevels, iu \in BOOLEAN}
    /\ IdleParser
    /\ IdleCast
    /\ IdleCli
    /\ IdleIR

SetUpNaming ==
    /\ renderer.phase = "constructed"
    /\ renderer' = [setUpNaming(renderer) EXCEPT !.phase = "named"]
    /\ UNCHANGED <<cli, parser, cast, named, unified, union, uop, uarg, uout, graph, fi, graph0, passes, before, twice>>

AssignNames ==
    /\ renderer.phase = "named"
    /\ renderer' = [assignNames(renderer) EXCEPT !.phase = "resolved"]
    /\ UNCHANGED <<cli, parser, cast, named, unified, union, uop, uarg, uout, graph, fi, graph0, passes, before, twice>>

\* The classes setUpNaming gave property names.
NamedClasses(r) == {r._propertyNames[i][1] : i \in 1 .. Len(r._propertyNames)}

\* The renderer after a call that returned or threw result.
Called(r, op, arg, result) ==
    [r EXCEPT !.phase = IF result.tag = "Throw" THEN "failed" ELSE "called",
              !.call = [op |-> op, arg |-> arg, result |-> result]]

ForEachProperty ==
    /\ renderer.phase = "resolved"
    /\ \E c \in NamedClasses(renderer) :
           renderer' = Called(renderer, "forEachProperty", c,
                              Return(forEachProperty(renderer, c)))
    /\ UNCHANGED <<cli, parser, cast, named, unified, union, uop, uarg, uout, graph, fi, graph0, passes, before, twice>>

ChildrenOfType ==
    /\ renderer.phase = "resolved"
    /\ \E c \in NamedClasses(renderer) :
           renderer' = Called(renderer, "childrenOfType", c,
                              Return(childrenOfType(renderer, c)))
    /\ UNCHANGED <<cli, parser, cast, named, unified, union, uop, uarg, uout, graph, fi, graph0, passes, before, twice>>

NameForNamedType ==
    /\ renderer.phase = "resolved"
    /\ \E t \in {x \in RenderArgs : isNamedType(x)} :
           LET res == nameForNamedType(renderer, t)
           IN  renderer' = Called(res.r, "nameForNamedType", t, res.result)
    /\ UNCHANGED <<cli, parser, cast, named, unified, union, uop, uarg, uout, graph, fi, graph0, passes, before, twice>>

SourceFor ==
    /\ renderer.phase = "resolved"
    /\ \E t \in RenderArgs :
           renderer' = Called(renderer, "sourceFor", t, sourceFor(renderer, t))
    /\ UNCHANGED <<cli, parser, cast, named, unified, union, uop, uarg, uout, graph, fi, graph0, passes, before, twice>>

TypeMapTypeFor ==
    /\ renderer.phase = "resolved"
    /\ \E t \in RenderArgs :
           renderer' = Called(renderer, "typeMapTypeFor", t,
                              typeMapTypeFor(renderer, t))
    /\ UNCHANGED <<cli, parser, cast, named, unified, union, uop, uarg, uout, graph, fi, graph0, passes, before, twice>>

CaseNamer ==
    /\ renderer.phase = "resolved"
    /\ renderer' = Called(renderer, "caseNamer", NoResult, caseNamer)
    /\ UNCHANGED <<cli, parser, cast, named, unified, union, uop, uarg, uout, graph, fi, graph0, passes, before, twice>>

\* The IR class data of a class: its properties inserted, in their order,
\* into a Data.Map, which is then traversed.
ToUnfoldable ==
    /\ renderer.phase = "resolved"
    /\ \E c \in NamedClasses(renderer) :
           LET cd == IRClassData(Inferred({c.names}),
                                 insertAll(EmptyMap, c.properties))
               l == toUnfoldable(cd.properties)
           IN  renderer' = Called(renderer, "toUnfoldable", c,
                                  Return([i \in 1 .. Len(l) |-> l[i][1]]))
    /\ UNCHANGED <<cli, parser, cast, named, unified, union, uop, uarg, uout, graph, fi, graph0, passes, before, twice>>

NextRender ==
    \/ SetUpNaming
    \/ ToUnfoldable
    \/ AssignNames
    \/ ForEachProperty
    \/ ChildrenOfType
    \/ NameForNamedType
    \/ SourceFor
    \/ TypeMapTypeFor
    \/ CaseNamer

SpecRender == InitRender /\ [][NextRender]_vars

(***************************************************************************)
(* Specification of emitting: the renderer is constructed on top levels,   *)
(* sets up naming, has the names assigned, and emits.                      *)
(***************************************************************************)
InitEmit ==
    /\ renderer \in {NewRenderer(tl, iu) :
                         tl \in EmitTopLevels, iu \in BOOLEAN}
    /\ IdleParser
    /\ IdleCast
    /\ IdleCli
    /\ IdleIR

\* forEachClass(..., this.emitClass) reaching class c.
EmitClass ==
    /\ renderer.phase = "resolved"
    /\ \E c \in NamedClasses(renderer) :
           renderer' = Called(renderer, "emitClass", c,
                              emitClass(renderer, c,
                                        Get(renderer._namesForNamedTypes, c)))
    /\ UNCHANGED <<cli, parser, cast, named, unified, union, uop, uarg, uout, graph, fi, graph0, passes, before, twice>>

\* emitSource, for a renderer made with any justTypes and runtimeTypecheck.
EmitSource ==
    /\ renderer.phase = "resolved"
    /\ \E justTypes \in BOOLEAN, runtimeTypecheck \in BOOLEAN :
           \E emitted \in {emitSource(renderer, justTypes, runtimeTypecheck)} :
               renderer' = Called(emitted.r, "emitSource",
                                  <<justTypes, runtimeTypecheck>>,
                                  emitted.result)
    /\ UNCHANGED <<cli, parser, cast, named, unified, union, uop, uarg, uout, graph, fi, graph0, passes, before, twice>>

NextEmit ==
    \/ SetUpNaming
    \/ AssignNames
    \/ EmitClass
    \/ EmitSource

SpecEmit == InitEmit /\ [][NextEmit]_vars

(***************************************************************************)
(* Specification of propertyNameStyle: the propertyNamer styles the JSON   *)
(* name of a property.                                                     *)
(***************************************************************************)
InitStyle ==
    /\ renderer \in {[phase |-> "styling", original |-> o, styled |-> NoResult] :
                         o \in StyleInputs}
    /\ IdleParser
    /\ IdleCast
    /\ IdleCli
    /\ IdleIR

PropertyNameStyle ==
    /\ renderer.phase = "styling"
    /\ renderer' = [renderer EXCEPT
                        !.phase = "styled",
                        !.styled = propertyNameStyle(renderer.original)]
    /\ UNCHANGED <<cli, parser, cast, named, unified, union, uop, uarg, uout, graph, fi, graph0, passes, before, twice>>

NextStyle == PropertyNameStyle

SpecStyle == InitStyle /\ [][NextStyle]_vars

(***************************************************************************)
(* Specification of parseJsonFromStream: the data handler runs once for    *)
(* each chunk of the stream, then the end handler resolves the promise.    *)
(***************************************************************************)
InitParse ==
    /\ parser \in {NewParser(input) : input \in Streams}
    /\ IdleRenderer
    /\ IdleCast
    /\ IdleCli
    /\ IdleIR

OnData ==
    /\ parser.phase = "reading"
    /\ parser.input /= <<>>
    /\ parser' = [onData(parser, Head(parser.input))
                      EXCEPT !.input = Tail(parser.input)]
    /\ UNCHANGED <<cli, renderer, cast, named, unified, union, uop, uarg, uout, graph, fi, graph0, passes, before, twice>>

OnEnd ==
    /\ parser.phase = "reading"
    /\ parser.input = <<>>
    /\ parser' = [parser EXCEPT !.phase = "resolved"]
    /\ UNCHANGED <<cli, renderer, cast, named, unified, union, uop, uarg, uout, graph, fi, graph0, passes, before, twice>>

NextParse ==
    \/ OnData
    \/ OnEnd

SpecParse == InitParse /\ [][NextParse]_vars

(***************************************************************************)
(* Specification of the emitted Convert.toX with runtime-typecheck: cast   *)
(* is called with the parsed JSON and the typ of the top level.            *)
(***************************************************************************)
InitCast ==
    /\ cast \in {[phase |-> "parsed", type |-> t, typ |-> TypFor(t),
                  obj |-> v, result |-> NoResult] :
                     t \in CastTypes, v \in JsValues}
    /\ IdleRenderer
    /\ IdleParser
    /\ IdleCli
    /\ IdleIR

Cast ==
    /\ cast.phase = "parsed"
    /\ cast' = [cast EXCEPT
                    !.phase = "done",
                    !.result = castCall(emitTypeMap(CastClasses), cast.obj,
                                        cast.typ)]
    /\ UNCHANGED <<cli, renderer, parser, named, unified, union, uop, uarg, uout, graph, fi, graph0, passes, before, twice>>

NextCast == Cast

SpecCast == InitCast /\ [][NextCast]_vars

(***************************************************************************)
(* Specification of option inference: the options parsed from the command  *)
(* line, or handed to main, are completed by inferOptions.                 *)
(***************************************************************************)
InitOptions ==
    /\ cli \in {[phase |-> "parsed", opts |-> o, result |-> NoResult] :
                    o \in OptionSets}
    /\ IdleRenderer
    /\ IdleParser
    /\ IdleCast
    /\ IdleIR

InferOptions ==
    /\ cli.phase = "parsed"
    /\ cli' = [cli EXCEPT !.phase = "inferred",
                          !.result = inferOptions(cli.opts)]
    /\ UNCHANGED <<renderer, parser, cast, named, unified, union, uop, uarg, uout, graph, fi, graph0, passes, before, twice>>

NextOptions == InferOptions

SpecOptions == InitOptions /\ [][NextOptions]_vars

(***************************************************************************)
(* Specification of main: it takes the branch its options select, awaits   *)
(* each read, and renders.                                                 *)
(***************************************************************************)
InitMain ==
    /\ cli \in {[phase |-> "start", options |-> o, calls |-> <<>>,
                 pending |-> <<>>] : o \in MainOptions}
    /\ IdleRenderer
    /\ IdleParser
    /\ IdleCast
    /\ IdleIR

Main ==
    /\ cli.phase = "start"
    /\ LET m == mainEnter(cli.options)
       IN  cli' = [cli EXCEPT !.phase = m.phase, !.calls = m.calls,
                              !.pending = m.pending]
    /\ UNCHANGED <<renderer, parser, cast, named, unified, union, uop, uarg, uout, graph, fi, graph0, passes, before, twice>>

ReadSource ==
    /\ cli.phase = "reading"
    /\ cli.pending /= <<>>
    /\ cli' = [cli EXCEPT !.calls = Append(@, readSource(Head(cli.pending))),
                          !.pending = Tail(@)]
    /\ UNCHANGED <<renderer, parser, cast, named, unified, union, uop, uarg, uout, graph, fi, graph0, passes, before, twice>>

MainRender ==
    /\ cli.phase = "reading"
    /\ cli.pending = <<>>
    /\ cli' = [cli EXCEPT !.calls = Append(@, "render"), !.phase = "done"]
    /\ UNCHANGED <<renderer, parser, cast, named, unified, union, uop, uarg, uout, graph, fi, graph0, passes, before, twice>>

NextMain ==
    \/ Main
    \/ ReadSource
    \/ MainRender

SpecMain == InitMain /\ [][NextMain]_vars

(***************************************************************************)
(* Specification of render: called with the samples, it renders them and   *)
(* writes and reports the result.                                          *)
(***************************************************************************)
InitRenderCli ==
    /\ cli \in {[phase |-> "rendering", options |-> o, result |-> r,
                 effects |-> <<>>] : o \in RenderOptions, r \in RenderResults}
    /\ IdleRenderer
    /\ IdleParser
    /\ IdleCast
    /\ IdleIR

Render ==
    /\ cli.phase = "rendering"
    /\ cli' = [cli EXCEPT !.phase = "rendered",
                          !.effects = render(cli.options, cli.result)]
    /\ UNCHANGED <<renderer, parser, cast, named, unified, union, uop, uarg, uout, graph, fi, graph0, passes, before, twice>>

NextRenderCli == Render

SpecRenderCli == InitRenderCli /\ [][NextRenderCli]_vars

(***************************************************************************)
(* Specification of splitAndWriteJava: the loop takes one line, and the    *)
(* blank lines after a marker, each round; after the loop the last file is *)
(* written.  The loop is the only thing running, so it keeps being taken.  *)
(***************************************************************************)
InitSplit ==
    /\ cli \in {[phase |-> "splitting", dir |-> <<"d">>, lines |-> l, i |-> 0,
                 filename |-> Nothing, currentFileContents |-> <<>>,
                 written |-> <<>>] : l \in JavaOutputs}
    /\ IdleRenderer
    /\ IdleParser
    /\ IdleCast
    /\ IdleIR

SplitStep ==
    /\ cli.phase = "splitting"
    /\ cli.i < Len(cli.lines)
    /\ cli' = splitStep(cli)
    /\ UNCHANGED <<renderer, parser, cast, named, unified, union, uop, uarg, uout, graph, fi, graph0, passes, before, twice>>

SplitEnd ==
    /\ cli.phase = "splitting"
    /\ cli.i >= Len(cli.lines)
    /\ cli' = [writeFile(cli) EXCEPT !.phase = "split"]
    /\ UNCHANGED <<renderer, parser, cast, named, unified, union, uop, uarg, uout, graph, fi, graph0, passes, before, twice>>

NextSplit ==
    \/ SplitStep
    \/ SplitEnd

SpecSplit == InitSplit /\ [][NextSplit]_vars /\ WF_vars(NextSplit)

(***************************************************************************)
(* Properties of the Named merge rule and of the union operations.         *)
(***************************************************************************)
\* Bit k of a bit set, read arithmetically.
Bit(p, k) == (p \div Pow2(k)) % 2

\* C1: unifyNamed(f, a, b) is Given(f(ga, gb)) for two Givens, the Given
\* input itself when exactly one input is Given (on either side), and
\* Inferred(f(ia, ib)) for two Inferreds; the result is Inferred only when
\* both inputs are.
C1_UnifyNamedRule ==
    unified.tag /= "NoResult" =>
        LET a == named.a
            b == named.b
            merged == IF named.f = "union" THEN a.val \cup b.val
                      ELSE a.val \cap b.val
        IN  /\ (a.tag = "Given" /\ b.tag = "Given")
                => unified = [tag |-> "Given", val |-> merged]
            /\ (a.tag = "Given" /\ b.tag = "Inferred") => unified = a
            /\ (a.tag = "Inferred" /\ b.tag = "Given") => unified = b
            /\ (a.tag = "Inferred" /\ b.tag = "Inferred")
                => unified = [tag |-> "Inferred", val |-> merged]
            /\ (unified.tag = "Inferred")
                <=> (a.tag = "Inferred" /\ b.tag = "Inferred")

\* A Given on the right has won over a different Inferred on the left.
C1_Witness ==
    /\ unified.tag = "Given"
    /\ named.a.tag = "Inferred"
    /\ named.b.tag = "Given"
    /\ named.a.val = {"a"}
    /\ named.b.val = {"b"}
    /\ unified.val = {"b"}

\* The kinds a union holds, in the order Null, Integer, Double, Bool, String,
\* Array, Class, Map, Enum.
KindsHeld(un) ==
    LET p == un.primitives
        one(c, t) == IF c THEN <<t>> ELSE <<>>
    IN  one(Bit(p, 1) = 1, [tag |-> "IRNull"])
        \o one(Bit(p, 2) = 1 /\ Bit(p, 3) = 0, [tag |-> "IRInteger"])
        \o one(Bit(p, 2) = 1 /\ Bit(p, 3) = 1, [tag |-> "IRDouble"])
        \o one(Bit(p, 4) = 1, [tag |-> "IRBool"])
        \o one(Bit(p, 5) = 1, [tag |-> "IRString"])
        \o one(un.arrayType.tag = "Just",
               [tag |-> "IRArray", of |-> un.arrayType.val])
        \o one(un.classRef.tag = "Just",
               [tag |-> "IRClass", of |-> un.classRef.val])
        \o one(un.mapType.tag = "Just",
               [tag |-> "IRMap", of |-> un.mapType.val])
        \o one(un.enumData.tag = "Just",
               [tag |-> "IREnum", of |-> un.enumData.val])

\* C2: forUnion_(u, f) calls f exactly once for each kind u holds and for no
\* other, in the order Null, Integer, Double, Bool, String, Array, Class, Map,
\* Enum, and unionToList(u) lists the same kinds in the same order.
C2_ForUnionVisitsEveryKind ==
    (uop \in {"forUnion_", "unionToList"}) => uout = KindsHeld(union)

\* C3: nullableFromUnion(u) is Just t exactly when u holds Null and exactly
\* one other kind t, the enum slot counted; otherwise it is Nothing.
C3_NullableCountsEveryKind ==
    uop = "nullableFromUnion" =>
        LET held == KindsHeld(union)
            others == SelectSeq(held, LAMBDA t : t.tag /= "IRNull")
        IN  uout = IF Len(held) = 2 /\ held[1].tag = "IRNull"
                   THEN [tag |-> "Just", val |-> others[1]]
                   ELSE [tag |-> "Nothing"]

\* C4: forUnion_, unionToList and isUnionMember report at most one of Integer
\* and Double: Double when the Integer and the Double bit are both set, Integer
\* when the Integer bit alone is set.
C4_IntegerOrDouble ==
    LET p == union.primitives
        onlyInt == Bit(p, 2) = 1 /\ Bit(p, 3) = 0
        double == Bit(p, 2) = 1 /\ Bit(p, 3) = 1
        has(t) == \E i \in DOMAIN uout : uout[i] = t
    IN  /\ (uop \in {"forUnion_", "unionToList"}) =>
            /\ ~(has([tag |-> "IRInteger"]) /\ has([tag |-> "IRDouble"]))
            /\ double => (has([tag |-> "IRDouble"]) /\ ~has([tag |-> "IRInteger"]))
            /\ onlyInt => (has([tag |-> "IRInteger"]) /\ ~has([tag |-> "IRDouble"]))
        /\ (uop = "isUnionMember" /\ uarg.tag = "IRInteger") => (uout = onlyInt)
        /\ (uop = "isUnionMember" /\ uarg.tag = "IRDouble") => (uout = double)

\* A union with the Integer and the Double bit set was listed: Double only.
C4_Witness ==
    /\ uop = "unionToList"
    /\ union.primitives = 12
    /\ uout = <<[tag |-> "IRDouble"]>>

\* C5: removeNullFromUnion(u) returns hasNull exactly when the Null bit of u is
\* set; the returned union has no Null bit and agrees with u on the names,
\* every other bit and the four slots; without Null it is u.
C5_RemoveNullFrame ==
    uop = "removeNullFromUnion" =>
        LET p == union.primitives
            r == uout.nonNullUnion
        IN  /\ uout.hasNull = (Bit(p, 1) = 1)
            /\ Bit(r.primitives, 1) = 0
            /\ \A k \in (0 .. (PrimBits - 1)) \ {1} :
                   Bit(r.primitives, k) = Bit(p, k)
            /\ r.primitives < Pow2(PrimBits)
            /\ r.names = union.names
            /\ r.arrayType = union.arrayType
            /\ r.classRef = union.classRef
            /\ r.mapType = union.mapType
            /\ r.enumData = union.enumData
            /\ (Bit(p, 1) = 0) => (r = union)

\* Null was removed from a union that holds other bits and every slot.
C5_Witness ==
    /\ uop = "removeNullFromUnion"
    /\ union.primitives = 2 + 12 + 32
    /\ union.arrayType.tag = "Just"
    /\ union.enumData.tag = "Just"
    /\ union.names.tag = "Given"
    /\ uout.hasNull
    /\ uout.nonNullUnion.primitives = 12 + 32

(***************************************************************************)
(* Properties of the arena and of the canonicalization passes.             *)
(***************************************************************************)
\* The entries on the redirect chain that starts at entry i.
RECURSIVE ChainFrom(_, _, _)
ChainFrom(cs, i, fuel) ==
    IF fuel = 0 \/ i < 0 \/ i >= Len(cs) THEN {}
    ELSE {i} \cup (IF cs[i + 1].tag = "Redirect"
                   THEN ChainFrom(cs, cs[i + 1].to, fuel - 1) ELSE {})

\* C6: on an arena whose redirect chains are acyclic and end at a Class,
\* followIndex(g, i) terminates after at most length(classes) calls and returns
\* (j, cd) with entry j = Class cd and j on the redirect chain from i.
C6_FollowIndexReachesLiveEntry ==
    /\ [](/\ fi.steps <= Len(graph.classes)
          /\ fi.pc /= "failed"
          /\ fi.pc = "done" =>
                /\ fi.result[1] \in ChainFrom(graph.classes, fi.start,
                                              Len(graph.classes))
                /\ graph.classes[fi.result[1] + 1] =
                       [tag |-> "Class", cd |-> fi.result[2]]
                /\ (graph.classes[fi.start + 1].tag = "Class"
                        => fi.result[1] = fi.start))
    /\ ((fi.pc = "calling") ~> (fi.pc = "done"))

\* A chain of two redirects was followed to its class.
C6_Witness ==
    /\ fi.pc = "done"
    /\ fi.steps = 3
    /\ fi.result[1] /= fi.start
    /\ graph.classes[fi.start + 1].tag = "Redirect"

\* The last pass applied was regatherClassNames.
AfterClassNames ==
    passes /= <<>> /\ passes[Len(passes)] = "regatherClassNames"

\* The Class entry an index denotes: the end of its redirect chain.
Denoted(cs, i) ==
    CHOOSE j \in ChainFrom(cs, i, Len(cs)) : cs[j + 1].tag = "Class"

\* C7: after regatherClassNames(g), for every live class with a property p of
\* type Class(i), p is among the inferred names of the class i denotes, also
\* when entry i is a Redirect, provided that class has no Given names.
C7_PropertyNameReachesDenotedClass ==
    AfterClassNames =>
        \A o \in LiveIndices(before.classes) :
            LET props == before.classes[o + 1].cd.properties
            IN  \A p \in DOMAIN props :
                    props[p].tag = "IRClass" =>
                        LET j == Denoted(before.classes, props[p].of)
                        IN  before.classes[j + 1].cd.names.tag = "Inferred"
                                => p \in graph.classes[j + 1].cd.names.val

\* The names C8 gives the classes reached from a property: <<index, name>>.
RECURSIVE NamesOwed(_, _)
NamesOwed(name, t) ==
    CASE t.tag = "IRClass" -> {<<t.of, name>>}
      [] t.tag \in {"IRArray", "IRMap"} -> NamesOwed(singular(name), t.of)
      [] t.tag = "IRUnion" ->
            (IF t.of.arrayType.tag = "Just"
             THEN NamesOwed(singular(name), t.of.arrayType.val) ELSE {})
            \cup (IF t.of.mapType.tag = "Just"
                  THEN NamesOwed(singular(name), t.of.mapType.val) ELSE {})
            \cup (IF t.of.classRef.tag = "Just"
                  THEN {<<t.of.classRef.val, name>>} ELSE {})
      [] OTHER -> {}

\* C8: in regatherClassNames a class reached as the element type of an array or
\* map under property p receives singular(p), both when the array or map is the
\* property's type and when it is the array or map arm of a union; a class
\* reached directly or as the class arm of a union receives p.  (Stated for
\* classes referenced at their own index and without Given names.)
C8_ElementPositionsUseSingular ==
    AfterClassNames =>
        \A o \in LiveIndices(before.classes) :
            LET props == before.classes[o + 1].cd.properties
            IN  \A p \in DOMAIN props :
                    \A owed \in NamesOwed(p, props[p]) :
                        (/\ before.classes[owed[1] + 1].tag = "Class"
                         /\ before.classes[owed[1] + 1].cd.names.tag = "Inferred")
                            => owed[2] \in graph.classes[owed[1] + 1].cd.names.val

\* C9: regatherClassNames only adds names: every inferred name a class had is
\* still among its names afterwards, and a class with Given names keeps exactly
\* its Given names.
C9_ClassNamesOnlyGrow ==
    AfterClassNames =>
        \A j \in LiveIndices(before.classes) :
            LET old == before.classes[j + 1].cd.names
                new == graph.classes[j + 1].cd.names
            IN  /\ old.tag = "Inferred" => old.val \subseteq new.val
                /\ old.tag = "Given" => new = old

\* C10: regatherClassNames and regatherUnionNames are idempotent, and so is
\* regatherClassNames followed by regatherUnionNames: a pass applied right
\* after itself returns the graph it was given, and the two passes run a second
\* time in a row return the graph the first run returned.
C10_PassesIdempotent ==
    /\ passes = <<"regatherClassNames", "regatherClassNames">> => graph = before
    /\ passes = <<"regatherUnionNames", "regatherUnionNames">> => graph = before
    /\ twice.matched = 4 => graph = twice.result

\* Both passes ran twice in a row on a graph whose class names and union names
\* they had changed.
C10_Witness ==
    /\ twice.matched = 4
    /\ graph = twice.result
    /\ \E i \in LiveIndices(graph0.classes) :
           graph.classes[i + 1].cd.names /= graph0.classes[i + 1].cd.names
    /\ \E i \in LiveIndices(graph0.classes) :
           graph.classes[i + 1].cd.properties
               /= graph0.classes[i + 1].cd.properties
    /\ graph.toplevels /= graph0.toplevels

\* The last pass applied was regatherUnionNames.
AfterUnionNames ==
    passes /= <<>> /\ passes[Len(passes)] = "regatherUnionNames"

\* What regatherUnionNames owes the unions of a type that sits under the
\* name `name`: old is the type before the pass and new the type after it.
RECURSIVE UnionNamesOwed(_, _, _)
UnionNamesOwed(name, old, new) ==
    CASE old.tag \in {"IRArray", "IRMap"} ->
            new.tag = old.tag /\ UnionNamesOwed(name, old.of, new.of)
      [] old.tag = "IRUnion" ->
            /\ new.tag = "IRUnion"
            /\ (name.tag = "Inferred" /\ old.of.names.tag = "Inferred")
                   => (/\ new.of.names.tag = "Inferred"
                       /\ name.val \in new.of.names.val)
            /\ name.tag = "Given"
                   => (/\ new.of.names.tag = "Given"
                       /\ name.val \in new.of.names.val)
            /\ old.of.names.tag = "Given"
                   => (/\ new.of.names.tag = "Given"
                       /\ old.of.names.val \subseteq new.of.names.val)
            /\ (name.tag = "Inferred" /\ old.of.names.tag = "Given")
                   => new.of.names = old.of.names
            /\ isJust(old.of.arrayType)
                   => (/\ isJust(new.of.arrayType)
                       /\ UnionNamesOwed(Inferred(singular(name.val)),
                                         old.of.arrayType.val,
                                         new.of.arrayType.val))
            /\ isJust(old.of.mapType)
                   => (/\ isJust(new.of.mapType)
                       /\ UnionNamesOwed(Inferred(singular(name.val)),
                                         old.of.mapType.val,
                                         new.of.mapType.val))
      [] OTHER -> TRUE

\* C11: after regatherUnionNames(g) a union that is the type of class property
\* p, directly or as the element of an array or map, and has no Given names
\* carries the inferred name p; a union that is a top level's type has the
\* top-level name among its Given names; a union in the array or map arm of
\* another union receives the singular form of the containing name; and Given
\* names are never replaced or dropped because of an inferred name.
C11_UnionNamesFollowContainer ==
    AfterUnionNames =>
        /\ DOMAIN graph.toplevels = DOMAIN before.toplevels
        /\ \A k \in DOMAIN before.toplevels :
               UnionNamesOwed(Given(k), before.toplevels[k], graph.toplevels[k])
        /\ \A o \in LiveIndices(before.classes) :
               LET props == before.classes[o + 1].cd.properties
               IN  \A p \in DOMAIN props :
                       UnionNamesOwed(Inferred(p), props[p],
                                      graph.classes[o + 1].cd.properties[p])

\* regatherUnionNames has named the union under top level "Ws" Given {"Ws"}
\* and the union in its array arm Inferred {"W"}, and has left the Given names
\* of a union nested under property "qs" alone.
C11_Witness ==
    /\ AfterUnionNames
    /\ before.toplevels[nWs].of.names = Inferred({nO})
    /\ graph.toplevels[nWs].of.names = Given({nWs})
    /\ graph.toplevels[nWs].of.arrayType.val.of.names = Inferred({nW})
    /\ \E o \in LiveIndices(graph.classes) :
           LET props == graph.classes[o + 1].cd.properties
           IN  /\ nQs \in DOMAIN props
               /\ props[nQs].tag = "IRUnion"
               /\ props[nQs].of.names = Inferred({nQs})
               /\ isJust(props[nQs].of.arrayType)
               /\ props[nQs].of.arrayType.val.tag = "IRUnion"
               /\ props[nQs].of.arrayType.val.of.names = Given({nU})

\* C12: after any sequence of regatherClassNames and regatherUnionNames calls
\* the arena has the length it had, NoType is still NoType, Redirect k is
\* still Redirect k, a Class entry is still a Class entry with the same
\* property keys, and every index followIndex resolved resolves as before.
C12_ArenaStable ==
    /\ Len(graph.classes) = Len(graph0.classes)
    /\ \A i \in 1 .. Len(graph0.classes) :
           /\ graph.classes[i].tag = graph0.classes[i].tag
           /\ graph0.classes[i].tag = "Redirect"
                  => graph.classes[i] = graph0.classes[i]
           /\ graph0.classes[i].tag = "Class"
                  => DOMAIN graph.classes[i].cd.properties
                         = DOMAIN graph0.classes[i].cd.properties
    /\ \A i \in HeldIndices(graph0.classes) :
           followIndex(graph, i)[1] = followIndex(graph0, i)[1]

\* Both passes have run, changing the names of a class and of its unions, on
\* an arena with a Redirect entry, which still resolves to the class it did.
C12_Witness ==
    /\ Len(passes) = 2 /\ passes[1] /= passes[2]
    /\ graph.classes /= graph0.classes
    /\ graph.toplevels /= graph0.toplevels
    /\ \E i \in 0 .. (Len(graph.classes) - 1) :
           /\ graph.classes[i + 1].tag = "Redirect"
           /\ followIndex(graph, i)[1] = followIndex(graph0, i)[1]
           /\ followIndex(graph, i)[1] /= i

\* The renderer was asked op and the call is over.
Asked(op) == renderer.phase \in {"called", "failed"} /\ renderer.call.op = op

\* The number of properties of class c whose final name sorts before that of
\* the property jsonName.
Rank(r, c, jsonName) ==
    Cardinality({i \in 1 .. Len(c.properties) :
                     StrLess(PropertyKeys(r, c)[c.properties[i][1]],
                             PropertyKeys(r, c)[jsonName])})

\* C13: forEachProperty(c, blankPolicy, emit) calls emit exactly once for each
\* property of c, with that property's own Name, JSON name and type, in
\* ascending order of the final names; childrenOfType lists the property types
\* of a class in the same order.
C13_ForEachPropertySortedByFinalName ==
    /\ Asked("forEachProperty") =>
           LET c == renderer.call.arg
               calls == renderer.call.result.val
           IN  /\ Len(calls) = Len(c.properties)
               /\ \A i \in 1 .. Len(c.properties) :
                      \E k \in 1 .. Len(calls) :
                          /\ calls[k].jsonName = c.properties[i][1]
                          /\ calls[k].t = c.properties[i][2]
                          /\ calls[k].name
                                 = Get(Get(renderer._propertyNames, c),
                                       c.properties[i][1])
               /\ \A i, j \in 1 .. Len(calls) :
                      i < j => ~StrLess(renderer.names[calls[j].name],
                                        renderer.names[calls[i].name])
    /\ Asked("childrenOfType") =>
           LET c == renderer.call.arg
               byName == [k \in 1 .. Len(c.properties) |->
                             LET i == CHOOSE i \in 1 .. Len(c.properties) :
                                          Rank(renderer, c, c.properties[i][1])
                                              = k - 1
                             IN  c.properties[i][2]]
           IN  renderer.call.result.val = toOrderedSet(byName)

\* forEachProperty ran on a class whose two properties were inserted in the
\* opposite order of their final names, one of them a quoted name.
C13_Witness ==
    /\ Asked("forEachProperty")
    /\ Len(renderer.call.result.val) = 2
    /\ renderer.call.result.val[1].jsonName = sOne
    /\ renderer.names[renderer.call.result.val[1].name] = <<"\"", "1", "\"">>
    /\ renderer.call.arg.properties[1][1] = sB

\* C14: nameForNamedType(t) is a lookup: for a type registered during
\* setUpNaming it returns the registered Name, for a type without a name it
\* throws "Named type does not exist.", and in both cases it leaves
\* _namesForNamedTypes and the global namespace as they were.
C14_NameForNamedTypeIsLookup ==
    [][(renderer.phase = "resolved"
        /\ renderer'.phase \in {"called", "failed"}
        /\ renderer'.call.op = "nameForNamedType")
           => /\ renderer'._namesForNamedTypes = renderer._namesForNamedTypes
              /\ renderer'.globalNamespace = renderer.globalNamespace
              /\ renderer'.names = renderer.names
              /\ Has(renderer._namesForNamedTypes, renderer'.call.arg)
                     => renderer'.call.result
                            = Return(Get(renderer._namesForNamedTypes,
                                         renderer'.call.arg))
              /\ ~Has(renderer._namesForNamedTypes, renderer'.call.arg)
                     => renderer'.call.result
                            = Throw("Named type does not exist.")]_vars

\* nameForNamedType was asked about a nullable union, which setUpNaming gives
\* no name, in a renderer that has names for other types.
C14_Witness ==
    /\ Asked("nameForNamedType")
    /\ renderer.call.arg = NullableUnion
    /\ renderer.call.result = Throw("Named type does not exist.")
    /\ Has(renderer._namesForNamedTypes, LeafClass)

\* C16: after setUpNaming and name resolution no two distinct Names of the
\* global namespace have the same final spelling, and no two properties of one
\* class have the same final spelling.
C16_FinalSpellingsUnique ==
    renderer.phase = "resolved" =>
        /\ \A i, j \in 1 .. Len(renderer.globalNamespace) :
               i /= j => renderer.names[renderer.globalNamespace[i]]
                             /= renderer.names[renderer.globalNamespace[j]]
        /\ \A c \in NamedClasses(renderer) :
               LET pn == Get(renderer._propertyNames, c)
               IN  \A i, j \in 1 .. Len(pn) :
                       i /= j => renderer.names[pn[i][2]]
                                     /= renderer.names[pn[j][2]]

\* C18: when sourceFor, typeMapTypeFor or caseNamer meets an enum and fails,
\* an issue annotation has been recorded.
C18_EnumFailureIsAnnotated ==
    (/\ renderer.phase = "failed"
     /\ renderer.call.op \in {"sourceFor", "typeMapTypeFor", "caseNamer"}
     /\ renderer.call.result = Throw("FIXME: support enums"))
        => renderer.annotations /= <<>>

\* C19: the properties of a class are iterated in the order in which they
\* were first inserted, both when the IR class data is traversed and when a
\* renderer iterates with forEachProperty.
C19_PropertiesInInsertionOrder ==
    LET inserted(c) == [i \in 1 .. Len(c.properties) |-> c.properties[i][1]]
    IN  /\ Asked("toUnfoldable") =>
               renderer.call.result.val = inserted(renderer.call.arg)
        /\ Asked("forEachProperty") =>
               [i \in 1 .. Len(renderer.call.result.val) |->
                    renderer.call.result.val[i].jsonName]
                   = inserted(renderer.call.arg)

\* C17: in parseJsonFromStream every numeric literal whose text matches
\* ^-?\d+$, negative integers included, reaches the assembler as the sentinel
\* object wrapping the integer, and every other numeric literal reaches it as
\* a plain number: the chunks of the number itself.
C17_IntegersGetSentinel ==
    parser.phase /= "none" /\ parser.number /= NoResult =>
        IF isIntSigned(parser.number.value)
        THEN parser.number.assembled = intSentinelChunks(parser.number.value)
        ELSE parser.number.assembled = parser.number.queued

\* A property of this type may be absent from a value of its class.
Optional(t) ==
    \/ t.kind \in {"any", "null"}
    \/ t.kind = "union" /\ \E i \in 1 .. Len(t.members) :
                               t.members[i].kind = "null"

\* The parsed JSON value val matches the interface of type t.
RECURSIVE Conforms(_, _)
Conforms(val, t) ==
    CASE t.kind = "any" -> TRUE
      [] t.kind = "null" -> val.js = "null"
      [] t.kind = "bool" -> val.js = "boolean"
      [] t.kind \in {"integer", "double"} -> val.js = "number"
      [] t.kind = "string" -> val.js = "string"
      [] t.kind = "array" ->
            /\ val.js = "array"
            /\ \A i \in 1 .. Len(val.items) : Conforms(val.items[i], t.items)
      [] t.kind = "map" ->
            /\ val.js = "object"
            /\ \A i \in 1 .. Len(val.fields) :
                   Conforms(val.fields[i][2], t.values)
      [] t.kind = "class" ->
            /\ val.js = "object"
            /\ \A i \in 1 .. Len(t.properties) :
                   IF Has(val.fields, t.properties[i][1])
                   THEN Conforms(Get(val.fields, t.properties[i][1]),
                                 t.properties[i][2])
                   ELSE Optional(t.properties[i][2])
      [] t.kind = "union" ->
            \E i \in 1 .. Len(t.members) : Conforms(val, t.members[i])

\* C20: with runtime-typecheck the generated Convert.toX(json) throws an
\* 'Invalid value' error whenever the parsed JSON does not match the expected
\* interface, and returns the value when it matches.
C20_CastRejectsMismatch ==
    cast.phase = "done" =>
        IF Conforms(cast.obj, cast.type)
        THEN cast.result = Return(cast.obj)
        ELSE /\ cast.result.tag = "Throw"
             /\ cast.result.val.message = "Invalid value: obj"


\* The extension of a file name without its dot, and the last portion of a
\* file name with the extension at its end cut off.
ExtensionOf(name) == SubSeq(extname(name), 2, Len(extname(name)))
WithoutExtension(name) ==
    SubSeq(basename(name), 1, Len(basename(name)) - Len(extname(name)))

\* C21: when lang and topLevel are not given and out is given (with an
\* extension), inferOptions sets lang to out's extension without the dot and
\* topLevel to out's base name with that trailing extension removed; a given
\* lang or topLevel is kept; with no out, lang is "go" and topLevel is the
\* single src's base name without its extension, else "TopLevel".
C21_OptionsInferredFromOut ==
    cli.phase = "inferred" =>
        LET o == cli.opts
            r == cli.result
        IN  /\ (isJust(o.out) /\ extname(o.out.val) /= <<>>) \/ ~isJust(o.out)
                   => r.kind = "value"
            /\ r.kind = "value" =>
                   /\ isJust(o.lang) => r.value.lang = o.lang.val
                   /\ isJust(o.topLevel) => r.value.topLevel = o.topLevel.val
                   /\ ~isJust(o.lang) /\ isJust(o.out)
                          => r.value.lang = ExtensionOf(o.out.val)
                   /\ ~isJust(o.topLevel) /\ isJust(o.out)
                          => r.value.topLevel = WithoutExtension(o.out.val)
                   /\ ~isJust(o.lang) /\ ~isJust(o.out)
                          => r.value.lang = sGo
                   /\ ~isJust(o.topLevel) /\ ~isJust(o.out)
                          => r.value.topLevel =
                                 IF Len(o.src) = 1
                                 THEN WithoutExtension(o.src[1])
                                 ELSE sTopLevel


\* C22: a run of main that is not --help ends by calling render, whichever
\* kind of input it was given.
C22_MainEndsByRendering ==
    (cli.phase \in {"done", "failed"} /\ ~cli.options.help)
        => (cli.calls /= <<>> /\ cli.calls[Len(cli.calls)] = "render")


\* The events of a number that come before its numberValue.
NumberEvents == {"startNumber", "numberChunk", "endNumber"}

\* The queue holds events of one number only: number events, of which the
\* first, and no other, is a startNumber.
QueueOfOneNumber ==
    /\ \A i \in 1 .. Len(parser.queue) : parser.queue[i].name \in NumberEvents
    /\ \A i \in 1 .. Len(parser.queue) :
           parser.queue[i].name = "startNumber" <=> i = 1

\* What the claim has the data handler do with the next event of the stream.
QueueDiscipline ==
    (parser.phase = "reading" /\ parser.input /= <<>>) =>
        LET chunk == Head(parser.input)
            number == Append(parser.queue, chunk)
        IN  CASE chunk.name \in NumberEvents ->
                    /\ parser'.queue = number
                    /\ parser'.assembled = parser.assembled
              [] chunk.name = "numberValue" ->
                    /\ parser'.queue = <<>>
                    /\ \/ parser'.assembled = parser.assembled \o number
                       \/ /\ isIntSigned(chunk.value)
                          /\ parser'.assembled = parser.assembled
                                 \o intSentinelChunks(chunk.value)
              [] OTHER ->
                    /\ parser'.queue = parser.queue
                    /\ parser'.assembled = Append(parser.assembled, chunk)

\* C23: in parseJsonFromStream the events of a number are held in the queue
\* until its numberValue arrives; the queue is empty after every numberValue
\* and never holds events of two numbers; every other event reaches the
\* assembler at once and in stream order; the events of a number that is no
\* integer reach the assembler once each in their order, and only an
\* integer's events are replaced by the sentinel object's events.
C23_NumberQueueDiscipline ==
    [](parser.phase /= "none" => QueueOfOneNumber) /\ [][QueueDiscipline]_vars

\* A number that is no integer has been handed on and the events of a second
\* number are in the queue.
C23_Witness ==
    /\ parser.phase = "reading"
    /\ parser.number /= NoResult
    /\ ~isIntSigned(parser.number.value)
    /\ parser.number.assembled = parser.number.queued
    /\ Len(parser.queue) >= 2


\* The annotations of kind Issue among the annotations, in their order.
RECURSIVE Issues(_)
Issues(annotations) ==
    IF annotations = <<>> THEN <<>>
    ELSE (IF Head(annotations).annotation.kind = "Issue"
          THEN <<Head(annotations)>> ELSE <<>>) \o Issues(Tail(annotations))

C25_MemberIffListed ==
    uop = "isUnionMember" =>
        /\ uout <=> \E i \in 1 .. Len(unionToList(union)) :
                        unionToList(union)[i] = uarg
        /\ uout <=> \E i \in 1 .. Len(forUnion_(union)) :
                        forUnion_(union)[i] = uarg


\* The texts of the member types, in order, with " | " between them.
RECURSIVE MembersText(_, _)
MembersText(r, members) ==
    IF members = <<>> THEN <<>>
    ELSE IF Len(members) = 1 THEN sourceFor(r, members[1]).val
    ELSE sourceFor(r, members[1]).val \o <<Lit(" | ")>>
             \o MembersText(r, Tail(members))

\* C26: for an array whose item type is a union that sourceFor renders
\* inline (inlineUnions is set, or the union is nullable), the text sourceFor
\* produces is Array<m1 | ... | mn>, every member of the union included, for
\* both values of inlineUnions.
C26_ArrayOfInlineUnion ==
    (/\ Asked("sourceFor")
     /\ renderer.call.result.tag = "Return"
     /\ renderer.call.arg.kind = "array"
     /\ renderer.call.arg.items.kind = "union"
     /\ \/ renderer.inlineUnions
        \/ isJust(nullableFromUnionType(renderer.call.arg.items)))
        => renderer.call.result.val
               = <<Lit("Array<")>>
                     \o MembersText(renderer, renderer.call.arg.items.members)
                     \o <<Lit(">")>>


\* The column the type of a property's line starts at: after the name, the
\* "?" if any, the colon and the whitespace.
TypeColumn(line) ==
    Len(line.name) + Len(line.optional) + 1 + Len(line.whitespace)

\* C27: in an interface emitClass emits, the type of every property starts
\* at the same column; a property's name is followed by "?" exactly when its
\* type is a nullable union, and the type shown is then the union's sole
\* non-null member; at least one space separates the colon from the type.
C27_PropertyTypesAligned ==
    (Asked("emitClass") /\ renderer.call.result.tag = "Return") =>
        LET c == renderer.call.arg
            properties == forEachProperty(renderer, c)
            lines == renderer.call.result.val.lines
        IN  /\ Len(lines) = Len(properties)
            /\ \A i, j \in 1 .. Len(lines) :
                   TypeColumn(lines[i]) = TypeColumn(lines[j])
            /\ \A i \in 1 .. Len(lines) :
                   LET t == properties[i].t
                       nullable == /\ t.kind = "union"
                                   /\ Len(t.members) = 2
                                   /\ \E k \in 1 .. 2 : t.members[k].kind = "null"
                       shown == IF nullable
                                THEN CHOOSE m \in {t.members[1], t.members[2]} :
                                         m.kind /= "null"
                                ELSE t
                   IN  /\ lines[i].optional = <<"?">> <=> nullable
                       /\ lines[i].optional = <<>> <=> ~nullable
                       /\ lines[i].type = sourceFor(renderer, shown).val
                       /\ Len(lines[i].whitespace) >= 1
                       /\ \A k \in 1 .. Len(lines[i].whitespace) :
                              lines[i].whitespace[k] = " "

\* An interface was emitted in which a nullable property has a shorter name
\* than a property that is not nullable.
C27_Witness ==
    /\ Asked("emitClass")
    /\ renderer.call.result.tag = "Return"
    /\ \E i, j \in 1 .. Len(renderer.call.result.val.lines) :
           LET lines == renderer.call.result.val.lines
           IN  /\ lines[i].optional = <<"?">>
               /\ lines[j].optional = <<>>
               /\ Len(lines[i].name) + 1 < Len(lines[j].name)


\* Line k of the lines is a marker line "// <name>.java".
IsMarker(lines, k) ==
    /\ Len(lines[k]) > 8
    /\ SubSeq(lines[k], 1, 3) = <<"/", "/", " ">>
    /\ SubSeq(lines[k], Len(lines[k]) - 4, Len(lines[k]))
           = <<".", "j", "a", "v", "a">>

\* The positions of the marker lines, in ascending order.
RECURSIVE Markers(_, _)
Markers(lines, k) ==
    IF k > Len(lines) THEN <<>>
    ELSE (IF IsMarker(lines, k) THEN <<k>> ELSE <<>>) \o Markers(lines, k + 1)

\* Lines from to up to, each followed by a newline.
RECURSIVE LinesWithNewlines(_, _, _)
LinesWithNewlines(lines, from, to) ==
    IF from > to THEN <<>>
    ELSE lines[from] \o <<"\n">> \o LinesWithNewlines(lines, from + 1, to)

\* The first line after position k that is not blank, or the line after the
\* last.
RECURSIVE FirstNonBlank(_, _)
FirstNonBlank(lines, k) ==
    IF k <= Len(lines) /\ lines[k] = <<>> THEN FirstNonBlank(lines, k + 1)
    ELSE k

\* The file of the n-th marker: its name, and the lines up to the next
\* marker or the end, less the blank lines right after the marker.
FileOfMarker(dir, lines, markers, n) ==
    [file |-> dir \o <<"/">> \o SubSeq(lines[markers[n]], 4, Len(lines[markers[n]])),
     data |-> LinesWithNewlines(lines, FirstNonBlank(lines, markers[n] + 1),
                                IF n < Len(markers) THEN markers[n + 1] - 1
                                ELSE Len(lines))]

\* C28: splitAndWriteJava terminates, and has then written one file for
\* each marker line, in order: the lines between the marker and the next
\* marker or the end of the input, each followed by a newline, less the
\* blank lines right after the marker; lines before the first marker are in
\* no file and without a marker no file is written.
C28_SplitWritesFilePerMarker ==
    /\ (cli.phase = "splitting") ~> (cli.phase = "split")
    /\ [](cli.phase = "split" =>
              LET markers == Markers(cli.lines, 1)
              IN  cli.written = [n \in 1 .. Len(markers) |->
                                     FileOfMarker(cli.dir, cli.lines, markers, n)])

\* The split is done of an output with lines before the first marker, blank
\* lines after a marker and a second marker.
C28_Witness ==
    /\ cli.phase = "split"
    /\ Len(cli.written) = 2
    /\ ~IsMarker(cli.lines, 1)
    /\ \E k \in 2 .. Len(cli.lines) - 1 :
           IsMarker(cli.lines, k) /\ cli.lines[k + 1] = <<>>


\* The string may stand as an identifier: it is not empty, its first
\* character is alphabetic or an underscore, and neither string escaping nor
\* the legalisation of identifiers changes it.
PlainIdentifier(str) ==
    /\ str /= <<>>
    /\ (IsLetter(str[1]) \/ str[1] = "_")
    /\ stringEscape(str) = str
    /\ legalizeName(str) = str

\* C29: propertyNameStyle(s) is s itself exactly when s is not empty, starts
\* with a legal identifier start and is changed neither by string escaping
\* nor by legalisation; in every other case, the empty string included, it
\* is the escaped string in double quotes; the result is never empty.
C29_PropertyNameStyleQuotesOrKeeps ==
    renderer.phase = "styled" =>
        LET original == renderer.original
            styled == renderer.styled
        IN  /\ styled = original <=> PlainIdentifier(original)
            /\ ~PlainIdentifier(original) =>
                   styled = <<"\"">> \o stringEscape(original) \o <<"\"">>
            /\ styled /= <<>>

\* Styled: a name that escaping and legalisation leave unchanged but that
\* starts with a digit, and so is quoted.
C29_Witness ==
    /\ renderer.phase = "styled"
    /\ Len(renderer.original) = 3
    /\ renderer.original[1] = "1"
    /\ stringEscape(renderer.original) = renderer.original
    /\ legalizeName(renderer.original) = renderer.original
    /\ renderer.styled = <<"\"">> \o renderer.original \o <<"\"">>


\* The unions among the named types reachable from the top levels.
ReachableUnions ==
    {t \in {allNamedTypes(renderer.topLevels)[i] :
                i \in 1 .. Len(allNamedTypes(renderer.topLevels))} :
         t.kind = "union"}

\* The elements of a sequence.
Range(f) == {f[i] : i \in 1 .. Len(f)}

\* C30: emitSourceStructure never throws "Named type does not exist.": the
\* classes and the unions with unionNeedsName (the unions referred to by
\* name when inlineUnions is off) have a name registered by setUpNaming;
\* the named unions are exactly the unions that need a name; _namedClasses,
\* _namedEnums and _namedUnions partition _namedTypes, and every member has
\* a registered name.
C30_NamedTypesExist ==
    Asked("emitSource") =>
        /\ renderer.call.result /= Throw("Named type does not exist.")
        /\ renderer.call.result /= Throw("Defined value expected.")
        /\ Range(renderer._namedUnions)
               = {u \in ReachableUnions :
                      ~(/\ Len(u.members) = 2
                        /\ \E k \in 1 .. 2 : u.members[k].kind = "null")}
        /\ Range(renderer._namedClasses) \cup Range(renderer._namedEnums)
               \cup Range(renderer._namedUnions) = Range(renderer._namedTypes)
        /\ Range(renderer._namedClasses) \cap Range(renderer._namedEnums) = {}
        /\ Range(renderer._namedClasses) \cap Range(renderer._namedUnions) = {}
        /\ Range(renderer._namedEnums) \cap Range(renderer._namedUnions) = {}
        /\ \A t \in Range(renderer._namedTypes) :
               Has(renderer._namesForNamedTypes, t)

\* Source was emitted with inlineUnions off for top levels with a union
\* referred to by name and a nullable union.
C30_Witness ==
    /\ Asked("emitSource")
    /\ renderer.call.result.tag = "Return"
    /\ ~renderer.inlineUnions
    /\ renderer._namedUnions /= <<>>
    /\ Cardinality(ReachableUnions) > Len(renderer._namedUnions)
    /\ renderer.call.arg = <<FALSE, TRUE>>

====
